---- MODULE Spec2Model ----
(***************************************************************************)
(* Banhammer framework: the per-subreddit polling streams with their       *)
(* bounded windows of seen ids (banhammer/subreddit.py), the event filters *)
(* and handlers (banhammer/models/event_handler.py), the poll loop         *)
(* (banhammer/banhammer.py) and the reactions                              *)
(* (banhammer/models/reaction.py).                                         *)
(*                                                                         *)
(* The content source (apraw's listings and mod endpoints) is an input:    *)
(* every fetch draws a batch, or fails.  apraw.utils.BoundedSet and        *)
(* apraw.utils.ExponentialCounter are library classes that are not part    *)
(* of the sources; they are modelled from the specification's data model.  *)
(*                                                                         *)
(* The sources hold two copies of RedditItem with the same fields:         *)
(* banhammer/item.py, which Subreddit builds its items with and whose      *)
(* methods are plain calls, and banhammer/models/item.py, whose methods    *)
(* are awaited.  The model has one RedditItem; each of its methods is read *)
(* from the copy that has the calling convention of the caller, and        *)
(* get_reaction, a plain call in both, from either copy.                   *)
(***************************************************************************)
EXTENDS Integers, Sequences, FiniteSets, TLC

VARIABLES
    stream,      \* SpecStream: the (subreddit, category) stream under draw
    ids,         \* Subreddit._new_ids, _comment_ids, ...: ids[s][c], oldest first
    skip,        \* Subreddit._skip_new, _skip_comments, ...: skip[s][c]
    fetched,     \* the batch of the last draw, as the listing returned it
    yielded,     \* the items the last draw yielded, in order
    inserted,    \* history: every id added to the window of `stream`, in order
    delivered,   \* history: the id of every item `stream` yielded, in order
    call_filter, \* SpecFilter: the EventFilter under call
    call_item,   \* SpecFilter: the item handed to is_item_valid
    call_result, \* SpecFilter: what is_item_valid returned
    event_handlers, \* Banhammer._event_handlers
    counter,     \* Banhammer._counter: the ExponentialCounter's base
    pc,          \* send_items: "idle", "started", "draining", "sleeping", "crashed"
    todo,        \* send_items: the (subreddit, identifier) pairs of funcs not yet drained
    found,       \* send_items: found
    wait_time,   \* send_items: wait_time of the last sleep (0 before the first)
    log,         \* history: the handler calls of the current tick, in order
    drained,     \* history: the funcs drained to the end in the current tick
    failed,      \* history: the funcs whose fetch failed in the current tick
    reactions,   \* SpecReact: Subreddit.reactions, the rule list
    default_payload, \* the ReactionPayload() made when Reaction.handle is defined
    handled,     \* history: the number of Reaction.handle calls made
    outcome,     \* the last call made, get_reaction or handle, and its result
    issued,      \* history: the moderation calls the last Reaction.handle issued
    performed,   \* history: the tags of the actions that call performed
    run_rule,    \* SpecRule: the Reaction under call
    run_item,    \* SpecRule: the RedditItem the call is about, or None
    run_fail,    \* SpecRule: the call to the content source that fails, "" for none
    run_result,  \* SpecRule: what eligible returned, or what handle did
    declared,    \* SpecSetup: the EventHandlers made in the body of the Banhammer subclass
    subreddits,  \* SpecSubs: Banhammer.subreddits
    setup        \* the last call that set the Banhammer up, and its result

streamVars == <<stream, ids, skip, fetched, yielded, inserted, delivered>>
filterVars == <<call_filter, call_item, call_result>>

pollVars == <<event_handlers, counter, pc, todo, found, wait_time, log, drained, failed>>

reactVars == <<reactions, default_payload, handled, outcome, issued, performed>>

ruleVars == <<run_rule, run_item, run_fail, run_result>>

setupVars == <<declared, subreddits, setup>>

vars == <<streamVars, filterVars, pollVars, reactVars, ruleVars, setupVars>>

-----------------------------------------------------------------------------
(* Bounds *)

\* Capacity of a window in the model; the program constructs BoundedSet(301).
WindowCap == 2
\* Longest listing a fetch returns.
MaxBatch == 2
\* Longest insertion history followed for one stream.
MaxInserted == 4

-----------------------------------------------------------------------------
(* Names *)

Subreddits == {"A", "B"}

\* GeneratorIdentifier values
Categories == {"new", "comments", "reports", "mail", "queue", "mod_actions"}

\* ids of the content the source can return; two more than a window holds
ItemIds == 1..(WindowCap + 2)

\* author names; "None" stands for an author that cannot be resolved
Authors == {"X", "y", "None"}

\* the apraw classes of the fetched content; a mod action is none of the
\* classes RedditItem.__init__ tests for
Kinds == {"Submission", "Comment", "ModmailMessage", "ModmailConversation", "ModAction"}

-----------------------------------------------------------------------------
(* Sequences *)

RECURSIVE Reversed(_)
Reversed(s) == IF s = <<>> THEN <<>> ELSE Append(Reversed(Tail(s)), Head(s))

RECURSIVE Flatten(_)
Flatten(ss) == IF ss = <<>> THEN <<>> ELSE Head(ss) \o Flatten(Tail(ss))

Range(s) == {s[i] : i \in 1..Len(s)}

IsDistinct(s) == \A i, j \in 1..Len(s) : i # j => s[i] # s[j]

SeqsUpTo(S, n) == UNION {[1..k -> S] : k \in 0..n}

\* the last n elements of s (all of s when it is shorter)
LastN(s, n) == IF Len(s) <= n THEN s ELSE SubSeq(s, Len(s) - n + 1, Len(s))

-----------------------------------------------------------------------------
(* apraw.utils.BoundedSet: an insertion-ordered set of bounded size *)

BoundedSet == <<>>

BoundedSetContains(w, x) == \E i \in 1..Len(w) : w[i] = x

BoundedSetAdd(w, x) ==
    LET t == Append(w, x)
    IN  IF Len(t) > WindowCap THEN Tail(t) ELSE t

-----------------------------------------------------------------------------
(* RedditItem.__init__ *)

RedditItem(raw, subreddit, source) ==
    [class |-> "RedditItem", item |-> raw, id |-> raw.id,
     type |-> IF raw.kind = "Submission" THEN "submission"
              ELSE IF raw.kind = "Comment" THEN "comment"
              ELSE IF raw.kind \in {"ModmailMessage", "ModmailConversation"}
                   THEN "modmail"
              ELSE "mod action",
     subreddit |-> subreddit, source |-> source]

\* RedditItem.get_author_name: the name, or "[deleted]" when the author could
\* not be resolved (author "None")
get_author_name(item) ==
    IF item.item.author = "None" THEN "[deleted]" ELSE item.item.author

-----------------------------------------------------------------------------
(* Subreddit.get_new and its siblings: the loop over the reversed listing *)

\* The body of `for x in reversed(listing)`: entries is what is left of the
\* reversed listing, w the window, out the items yielded so far, ins the ids
\* added so far.
RECURSIVE StreamLoop(_, _, _, _, _, _, _)
StreamLoop(entries, w, skipping, subreddit, source, out, ins) ==
    IF entries = <<>>
    THEN [ids |-> w, out |-> out, ins |-> ins]
    ELSE LET e == Head(entries)
         IN  IF BoundedSetContains(w, e.id)
             THEN StreamLoop(Tail(entries), w, skipping, subreddit, source, out, ins)
             ELSE StreamLoop(Tail(entries), BoundedSetAdd(w, e.id), skipping,
                             subreddit, source,
                             IF skipping THEN out
                             ELSE Append(out, RedditItem(e, subreddit, source)),
                             Append(ins, e.id))

\* What every get_* returns to its caller and leaves in the subreddit: the
\* window, the cleared skip flag, the items yielded and the ids added.
Drawn(r) == [ids |-> r.ids, skip |-> FALSE, out |-> r.out, ins |-> r.ins]

\* get_new iterating the listing as fetched, newest first
get_new_unreversed(w, skipping, subreddit, listing) ==
    Drawn(StreamLoop(listing, w, skipping, subreddit, "new", <<>>, <<>>))

\* every id of entries added to w, seen or not
RECURSIVE AddAll(_, _)
AddAll(w, entries) ==
    IF entries = <<>> THEN w
    ELSE AddAll(BoundedSetAdd(w, Head(entries).id), Tail(entries))

\* get_new without the `continue` for an id that is in the window
get_new_readds(w, skipping, subreddit, listing) ==
    [ids |-> AddAll(w, Reversed(listing)), skip |-> FALSE,
     out |-> IF skipping THEN <<>>
             ELSE [k \in 1..Len(listing) |->
                      RedditItem(Reversed(listing)[k], subreddit, "new")],
     ins |-> [k \in 1..Len(listing) |-> Reversed(listing)[k].id]]

get_new(w, skipping, subreddit, listing) ==
    Drawn(StreamLoop(Reversed(listing), w, skipping, subreddit, "new", <<>>, <<>>))

get_comments(w, skipping, subreddit, listing) ==
    Drawn(StreamLoop(Reversed(listing), w, skipping, subreddit, "new", <<>>, <<>>))

get_reports(w, skipping, subreddit, listing) ==
    Drawn(StreamLoop(Reversed(listing), w, skipping, subreddit, "reports", <<>>, <<>>))

\* conversations is a listing of conversations, each the sequence of its
\* messages: the conversations are reversed, the messages of one are not.
get_mail(w, skipping, subreddit, conversations) ==
    Drawn(StreamLoop(Flatten(Reversed(conversations)), w, skipping, subreddit,
                     "modmail", <<>>, <<>>))

\* get_queue losing the ids it added when it returns
get_queue_not_recorded(w, skipping, subreddit, listing) ==
    [ids |-> w, skip |-> FALSE,
     out |-> StreamLoop(Reversed(listing), w, skipping, subreddit, "queue", <<>>, <<>>).out,
     ins |-> StreamLoop(Reversed(listing), w, skipping, subreddit, "queue", <<>>, <<>>).ins]

get_queue(w, skipping, subreddit, listing) ==
    Drawn(StreamLoop(Reversed(listing), w, skipping, subreddit, "queue", <<>>, <<>>))

\* str.lower() on the names the model uses
Lower(n) ==
    CASE n = "A" -> "a"
      [] n = "B" -> "b"
      [] n = "X" -> "x"
      [] n = "Y" -> "y"
      [] OTHER -> n

\* The body of `for action in reversed(actions)` in get_mod_actions: mods is
\* the lowered list of names; an action whose moderator is not in it, and
\* every action when the list is empty, is passed over before its id is added.
RECURSIVE ModActionLoop(_, _, _, _, _, _, _)
ModActionLoop(entries, w, skipping, subreddit, mods, out, ins) ==
    IF entries = <<>>
    THEN [ids |-> w, out |-> out, ins |-> ins]
    ELSE LET e == Head(entries)
         IN  IF BoundedSetContains(w, e.id)
             THEN ModActionLoop(Tail(entries), w, skipping, subreddit, mods, out, ins)
             ELSE IF Lower(e.mod) \notin Range(mods) \/ mods = <<>>
             THEN ModActionLoop(Tail(entries), w, skipping, subreddit, mods, out, ins)
             ELSE ModActionLoop(Tail(entries), BoundedSetAdd(w, e.id), skipping,
                                subreddit, mods,
                                IF skipping THEN out
                                ELSE Append(out, RedditItem(e, subreddit, "log")),
                                Append(ins, e.id))

get_mod_actions(w, skipping, subreddit, listing, mods) ==
    Drawn(ModActionLoop(Reversed(listing), w, skipping, subreddit,
                        [k \in 1..Len(mods) |-> Lower(mods[k])], <<>>, <<>>))

-----------------------------------------------------------------------------
(* The content source: what a fetch can return *)

Raw(i, kind) == [id |-> i, kind |-> kind, author |-> "X"]

\* a listing holds every entry once
IdListings == {s \in SeqsUpTo(ItemIds, MaxBatch) : IsDistinct(s)}

Listings(kind) == {[k \in 1..Len(s) |-> Raw(s[k], kind)] : s \in IdListings}

\* s cut into conversations after the positions in cuts
RECURSIVE Cut(_, _, _)
Cut(s, cuts, k) ==
    IF k > Len(s) THEN <<>>
    ELSE LET rest == Cut(s, cuts, k + 1)
         IN  IF rest = <<>> \/ k \in cuts
             THEN <<(<<s[k]>>)>> \o rest
             ELSE <<(<<s[k]>> \o Head(rest))>> \o Tail(rest)

ConversationListings ==
    {Cut(l, cuts, 1) : l \in Listings("ModmailMessage"), cuts \in SUBSET (1..(MaxBatch - 1))}

-----------------------------------------------------------------------------
(* Reactions: the rules and the payload (banhammer/models/reaction.py)      *)
(*                                                                         *)
(* An emoji is held as the sequence of its characters, so that strip()     *)
(* is computed; None stands for Python's None where an object is expected; *)
(* an optional integer is the empty sequence (None) or <<n>>.              *)

None == [class |-> "NoneType"]

\* str.strip
RECURSIVE Strip(_)
Strip(s) ==
    IF s = <<>> THEN s
    ELSE IF Head(s) = " " THEN Strip(Tail(s))
    ELSE IF s[Len(s)] = " " THEN Strip(SubSeq(s, 1, Len(s) - 1))
    ELSE s

\* ReactionPayload.__init__
ReactionPayload(user) ==
    [class |-> "ReactionPayload", item |-> None, user |-> user, actions |-> <<>>,
     approved |-> FALSE, reply |-> "", emoji |-> <<>>]

\* ReactionPayload.feed: the emoji handed over is not stored
feed(payload, item, approved, user, emoji, reply) ==
    [payload EXCEPT !.item = item,
                    !.approved = approved,
                    !.user = IF user # "" THEN user ELSE @,
                    !.reply = reply]

\* kwargs[key] if key in kwargs else default
Kwarg(kwargs, key, default) ==
    IF key \in DOMAIN kwargs THEN kwargs[key] ELSE default

\* a rule with distinguish_reply taken as it was given
ReactionAsGiven(kwargs) ==
    [class |-> "Reaction",
     emoji |-> Strip(Kwarg(kwargs, "emoji", <<>>)),
     type |-> Kwarg(kwargs, "type", ""),
     flair |-> Kwarg(kwargs, "flair", ""),
     approve |-> Kwarg(kwargs, "approve", FALSE),
     mark_nsfw |-> Kwarg(kwargs, "mark_nsfw", FALSE),
     lock |-> Kwarg(kwargs, "lock", FALSE),
     reply |-> Kwarg(kwargs, "reply", ""),
     distinguish_reply |-> Kwarg(kwargs, "distinguish_reply", TRUE),
     sticky_reply |-> Kwarg(kwargs, "sticky_reply", TRUE),
     ban |-> Kwarg(kwargs, "ban", <<>>),
     archive |-> Kwarg(kwargs, "archive", FALSE),
     mute |-> Kwarg(kwargs, "mute", FALSE),
     min_votes |-> Kwarg(kwargs, "min_votes", 1),
     item |-> None]

\* Reaction.__init__
Reaction(kwargs) ==
    [class |-> "Reaction",
     emoji |-> Strip(Kwarg(kwargs, "emoji", <<>>)),
     type |-> Kwarg(kwargs, "type", ""),
     flair |-> Kwarg(kwargs, "flair", ""),
     approve |-> Kwarg(kwargs, "approve", FALSE),
     mark_nsfw |-> Kwarg(kwargs, "mark_nsfw", FALSE),
     lock |-> Kwarg(kwargs, "lock", FALSE),
     reply |-> Kwarg(kwargs, "reply", ""),
     distinguish_reply |-> IF Kwarg(kwargs, "sticky_reply", TRUE) THEN TRUE
                           ELSE Kwarg(kwargs, "distinguish_reply", TRUE),
     sticky_reply |-> Kwarg(kwargs, "sticky_reply", TRUE),
     ban |-> Kwarg(kwargs, "ban", <<>>),
     archive |-> Kwarg(kwargs, "archive", FALSE),
     mute |-> Kwarg(kwargs, "mute", FALSE),
     min_votes |-> Kwarg(kwargs, "min_votes", 1),
     item |-> None]

\* eligibility with an unset type taken for every kind of mail as well
eligible_unset_any(reaction, raw) ==
    /\ raw.kind \in {"Submission", "Comment", "ModmailMessage", "ModmailConversation"}
    /\ \/ reaction.type = ""
       \/ reaction.type = "submission" /\ raw.kind = "Submission"
       \/ reaction.type = "comment" /\ raw.kind = "Comment"
       \/ reaction.type = "mail" /\ raw.kind \in {"ModmailMessage", "ModmailConversation"}

\* Reaction.eligible, on the content a RedditItem wraps
eligible(reaction, raw) ==
    IF raw.kind = "Submission"
    THEN reaction.type = "" \/ reaction.type = "submission"
    ELSE IF raw.kind = "Comment"
    THEN reaction.type = "" \/ reaction.type = "comment"
    ELSE IF raw.kind \in {"ModmailMessage", "ModmailConversation"}
    THEN reaction.type = "mail"
    ELSE FALSE

\* Subreddit.get_reactions: the eligible rules in list order, each by its
\* place in Subreddit.reactions (the list holds the rule objects themselves)
RECURSIVE EligibleFrom(_, _, _)
EligibleFrom(rules, raw, k) ==
    IF k > Len(rules) THEN <<>>
    ELSE (IF eligible(rules[k], raw) THEN <<k>> ELSE <<>>)
         \o EligibleFrom(rules, raw, k + 1)

get_reactions(rules, raw) == EligibleFrom(rules, raw, 1)

\* the eligible rule looked for from the end of the list
get_reaction_last(rules, emoji, raw) ==
    LET _r == get_reactions(rules, raw)
        hits == {j \in 1..Len(_r) : rules[_r[j]].emoji = emoji}
    IN  IF hits = {} THEN 0
        ELSE _r[CHOOSE j \in hits : \A i \in hits : i <= j]

\* Subreddit.get_reaction: the place of the rule returned, 0 when the loop
\* ends without a return (None)
get_reaction(rules, emoji, raw) ==
    LET _r == get_reactions(rules, raw)
        hits == {j \in 1..Len(_r) : rules[_r[j]].emoji = emoji}
    IN  IF hits = {} THEN 0
        ELSE _r[CHOOSE j \in hits : \A i \in hits : j <= i]

\* RedditItem.is_removed: the wrapped content is None or has no id
is_removed(item) == item.item = None \/ "id" \notin DOMAIN item.item

\* RedditItem.is_author_removed: the author is None or has no name
is_author_removed(item) == item.item.author = "None"

\* one step of a reaction: a call to the content source, then the tag
\* appended to payload.actions once the call has returned ("" for none)
Step(call, on, tag) == [call |-> call, on |-> on, tag |-> tag]

\* the steps of gen_handle for a mail item: item is a RedditItem, never a
\* ModmailMessage, so the calls go to item.item
MailSteps(reaction, item) ==
    LET conversation == item.item.kind
    IN  (IF reaction.archive
         THEN <<Step("archive", conversation, "archived")>> ELSE <<>>)
     \o (IF reaction.mute
         THEN <<Step("mute", conversation, "muted")>> ELSE <<>>)
     \o (IF reaction.reply # ""
         THEN <<Step("reply", conversation, "replied to")>> ELSE <<>>)

\* the steps of gen_handle for an item found removed, or whose author is
RemovedSteps(item) ==
    <<Step("remove", item.item.kind, "removed"),
      Step("lock", item.item.kind, "locked")>>

\* the tag of a ban with every ban taken for one of so many days
BanTagInDays(name, ban) ==
    "/u/" \o name \o " banned for " \o ToString(ban) \o " day(s)"

\* the tag of a ban
BanTag(name, ban) ==
    IF ban = 0 THEN "/u/" \o name \o " permanently banned"
    ELSE "/u/" \o name \o " banned for " \o ToString(ban) \o " day(s)"

\* item.item.subreddit.banned.add(name, ...): without a duration when ban is
\* 0, with duration=ban otherwise
BanStep(name, ban) ==
    [call |-> "ban", on |-> name, tag |-> BanTag(name, ban),
     duration |-> IF ban = 0 THEN <<>> ELSE <<ban>>]

\* the call of a step, as the content source sees it
CallOf(st) == [f \in DOMAIN st \ {"tag"} |-> st[f]]

\* the steps for any other item, with the lock taken from rule.lock alone
ItemStepsLockAsSet(reaction, item) ==
    LET on == item.item.kind
    IN  (IF reaction.approve
         THEN <<Step("approve", on, "approved")>>
         ELSE <<Step("remove", on, "removed")>>)
     \o (IF reaction.lock
         THEN <<Step("lock", on, "locked")>>
         ELSE <<Step("unlock", on, "")>>)
     \o (IF on = "Submission" /\ reaction.flair # ""
         THEN <<Step("flair", on, "flaired")>> ELSE <<>>)
     \o (IF on = "Submission" /\ reaction.mark_nsfw
         THEN <<Step("nsfw", on, "marked NSFW")>> ELSE <<>>)
     \o (IF reaction.reply = "" THEN <<>>
         ELSE IF reaction.distinguish_reply
         THEN <<Step("reply", on, ""), Step("distinguish", "reply", "replied to")>>
         ELSE <<Step("reply", on, "replied to")>>)
     \o (IF reaction.ban = <<>> THEN <<>>
         ELSE <<Step("get_ban_message", "message_builder", ""),
                BanStep(item.item.author, reaction.ban[1])>>)

\* the steps for any other item, with the reply made before the flair is
\* set, whatever the kind of the item
ItemStepsReplyFirst(reaction, item) ==
    LET on == item.item.kind
    IN  (IF reaction.approve
         THEN <<Step("approve", on, "approved")>>
         ELSE <<Step("remove", on, "removed")>>)
     \o (IF reaction.lock \/ ~reaction.approve
         THEN <<Step("lock", on, "locked")>>
         ELSE <<Step("unlock", on, "")>>)
     \o (IF reaction.reply = "" THEN <<>>
         ELSE IF reaction.distinguish_reply
         THEN <<Step("reply", on, ""), Step("distinguish", "reply", "replied to")>>
         ELSE <<Step("reply", on, "replied to")>>)
     \o (IF reaction.flair # ""
         THEN <<Step("flair", on, "flaired")>> ELSE <<>>)
     \o (IF on = "Submission" /\ reaction.mark_nsfw
         THEN <<Step("nsfw", on, "marked NSFW")>> ELSE <<>>)
     \o (IF reaction.ban = <<>> THEN <<>>
         ELSE <<Step("get_ban_message", "message_builder", ""),
                BanStep(item.item.author, reaction.ban[1])>>)

\* the steps of gen_handle for any other item
ItemSteps(reaction, item) ==
    LET on == item.item.kind
    IN  (IF reaction.approve
         THEN <<Step("approve", on, "approved")>>
         ELSE <<Step("remove", on, "removed")>>)
     \o (IF reaction.lock \/ ~reaction.approve
         THEN <<Step("lock", on, "locked")>>
         ELSE <<Step("unlock", on, "")>>)
     \o (IF on = "Submission" /\ reaction.flair # ""
         THEN <<Step("flair", on, "flaired")>> ELSE <<>>)
     \o (IF on = "Submission" /\ reaction.mark_nsfw
         THEN <<Step("nsfw", on, "marked NSFW")>> ELSE <<>>)
     \o (IF reaction.reply = "" THEN <<>>
         ELSE IF reaction.distinguish_reply
         THEN <<Step("reply", on, ""), Step("distinguish", "reply", "replied to")>>
         ELSE <<Step("reply", on, "replied to")>>)
     \o (IF reaction.ban = <<>> THEN <<>>
         ELSE <<Step("get_ban_message", "message_builder", ""),
                BanStep(item.item.author, reaction.ban[1])>>)

\* the steps are taken in order; the call named by fail raises, and nothing
\* in gen_handle catches it
RECURSIVE Execute(_, _, _, _)
Execute(steps, fail, calls, tags) ==
    IF steps = <<>> THEN [raised |-> "", issued |-> calls, tags |-> tags]
    ELSE IF Head(steps).call = fail
    THEN [raised |-> "Exception", issued |-> calls, tags |-> tags]
    ELSE Execute(Tail(steps), fail,
                 Append(calls, CallOf(Head(steps))),
                 IF Head(steps).tag = "" THEN tags
                 ELSE Append(tags, Head(steps).tag))

\* gen_handle with the payload of a removed item left as handle fed it
gen_handle_keeps_fed(reaction, item, payload, fail) ==
    LET mail == item.item.kind \in {"ModmailConversation", "ModmailMessage"}
        gone == ~mail /\ (is_removed(item) \/ is_author_removed(item))
        e == Execute(IF mail THEN MailSteps(reaction, item)
                     ELSE IF gone THEN RemovedSteps(item)
                     ELSE ItemSteps(reaction, item), fail, <<>>, <<>>)
    IN  [raised |-> e.raised,
         payload |-> [payload EXCEPT !.actions = @ \o e.tags],
         issued |-> e.issued,
         performed |-> e.tags]

\* ReactionHandler.gen_handle: what it raised, the payload object as it
\* leaves it, the calls it issued and the tags it appended
gen_handle(reaction, item, payload, fail) ==
    LET mail == item.item.kind \in {"ModmailConversation", "ModmailMessage"}
        gone == ~mail /\ (is_removed(item) \/ is_author_removed(item))
        e == Execute(IF mail THEN MailSteps(reaction, item)
                     ELSE IF gone THEN RemovedSteps(item)
                     ELSE ItemSteps(reaction, item), fail, <<>>, <<>>)
        appended == [payload EXCEPT !.actions = @ \o e.tags]
    IN  [raised |-> e.raised,
         payload |-> IF gone /\ e.raised = ""
                     THEN feed(appended, item, FALSE, "Banhammer", <<>>, "")
                     ELSE appended,
         issued |-> e.issued,
         performed |-> e.tags]

\* handle with the payload fed before the item is looked at
handle_feeds_first(self, payload, user, item, fail) ==
    LET it == IF item = None /\ self.item # None THEN self.item ELSE item
        fed == feed(payload, it, self.approve,
                    IF user = "" THEN payload.user ELSE user, self.emoji, self.reply)
        quiet == [payload |-> fed, issued |-> <<>>, performed |-> <<>>]
    IN  IF it.class # "RedditItem"
        THEN [raised |-> "NoItemGiven"] @@ quiet
        ELSE IF ~eligible(self, it.item)
        THEN [raised |-> "NotEligibleItem"] @@ quiet
        ELSE gen_handle(self, it, fed, fail)

\* Reaction.handle on the rule `self`, with the payload object it works on
handle(self, payload, user, item, fail) ==
    LET it == IF item = None /\ self.item # None THEN self.item ELSE item
        quiet == [payload |-> payload, issued |-> <<>>, performed |-> <<>>]
    IN  IF it.class # "RedditItem"
        THEN [raised |-> "NoItemGiven"] @@ quiet
        ELSE IF ~eligible(self, it.item)
        THEN [raised |-> "NotEligibleItem"] @@ quiet
        ELSE gen_handle(self, it,
                        feed(payload, it, self.approve,
                             IF user = "" THEN payload.user ELSE user,
                             self.emoji, self.reply),
                        fail)

-----------------------------------------------------------------------------
(* The variables of one specification while another one runs *)

Pending == [raised |-> "pending", value |-> FALSE]

\* no get_reaction or handle call was made yet
NoCall == [op |-> "none", raised |-> "pending"]

IdleFilter ==
    /\ call_filter = [attribute |-> "subreddit", values |-> {}, reverse |-> FALSE]
    /\ call_item = [class |-> "None"]
    /\ call_result = Pending

IdlePoll ==
    /\ event_handlers = <<>>
    /\ counter = 1
    /\ pc = "idle"
    /\ todo = {}
    /\ found = FALSE
    /\ wait_time = 0
    /\ log = <<>>
    /\ drained = {}
    /\ failed = {}

IdleReact ==
    /\ reactions = <<>>
    /\ default_payload = ReactionPayload("Banhammer")
    /\ handled = 0
    /\ outcome = NoCall
    /\ issued = <<>>
    /\ performed = <<>>

IdleRule ==
    /\ run_rule = Reaction([emoji |-> <<>>])
    /\ run_item = None
    /\ run_fail = ""
    /\ run_result = NoCall

IdleSetup ==
    /\ declared = <<>>
    /\ subreddits = <<>>
    /\ setup = NoCall

-----------------------------------------------------------------------------
(* One stream drawn again and again *)

IdsOf(items) == [k \in 1..Len(items) |-> items[k].id]

\* the ids of the last batch in the order the draw examined them
ExaminedIds(c, batch) ==
    IdsOf(IF c = "mail" THEN Flatten(Reversed(batch)) ELSE Reversed(batch))

\* the ids of seq that are not in the window w, in the order of seq
NotIn(seq, w) ==
    LET Unseen(i) == ~BoundedSetContains(w, i)
    IN  SelectSeq(seq, Unseen)

\* the elements of seq that are in the set S, in the order of seq
Only(seq, S) ==
    LET Member(i) == i \in S
    IN  SelectSeq(seq, Member)

\* Ids are opaque names, so the source is taken to number its content in the
\* order in which the stream first examines it: the ids of a batch that were
\* never added before are the next unused numbers, in examined order.
NumberedAsSeen(examined, known) ==
    LET fresh == Only(examined, ItemIds \ known)
    IN  fresh = [k \in 1..Len(fresh) |-> Cardinality(known) + k]

NoIds == [s \in Subreddits |-> [c \in Categories |-> BoundedSet]]
AllSkip == [s \in Subreddits |-> [c \in Categories |-> TRUE]]

InitStream ==
    /\ stream \in {<<"A", c>> : c \in {"new", "reports", "mail", "queue"}}
    /\ ids = NoIds
    /\ skip = AllSkip
    /\ fetched = <<>>
    /\ yielded = <<>>
    /\ inserted = <<>>
    /\ delivered = <<>>
    /\ IdleFilter
    /\ IdlePoll
    /\ IdleReact
    /\ IdleRule
    /\ IdleSetup

\* the draw r of stream <<s, c>> on batch b is stored
Draw(s, c, b, r) ==
    /\ stream = <<s, c>>
    /\ NumberedAsSeen(ExaminedIds(c, b), Range(inserted))
    /\ Len(inserted) + Len(r.ins) <= MaxInserted
    /\ ids' = [ids EXCEPT ![s][c] = r.ids]
    /\ skip' = [skip EXCEPT ![s][c] = r.skip]
    /\ fetched' = b
    /\ yielded' = r.out
    /\ inserted' = inserted \o r.ins
    /\ delivered' = delivered \o [k \in 1..Len(r.out) |-> r.out[k].id]
    /\ UNCHANGED <<stream, filterVars, pollVars, reactVars, ruleVars, setupVars>>

DrawNew ==
    \E s \in Subreddits, b \in Listings("Submission") :
        Draw(s, "new", b, get_new(ids[s]["new"], skip[s]["new"], s, b))

DrawReports ==
    \E s \in Subreddits, b \in Listings("Submission") :
        Draw(s, "reports", b, get_reports(ids[s]["reports"], skip[s]["reports"], s, b))

DrawMail ==
    \E s \in Subreddits, b \in ConversationListings :
        Draw(s, "mail", b, get_mail(ids[s]["mail"], skip[s]["mail"], s, b))

DrawQueue ==
    \E s \in Subreddits, b \in Listings("Submission") :
        Draw(s, "queue", b, get_queue(ids[s]["queue"], skip[s]["queue"], s, b))

NextStream == DrawNew \/ DrawReports \/ DrawMail \/ DrawQueue

SpecStream == InitStream /\ [][NextStream]_vars

-----------------------------------------------------------------------------
(* Properties of the streams *)

Window == ids[stream[1]][stream[2]]
Skipping == skip[stream[1]][stream[2]]

C2_AtMostOnce == IsDistinct(delivered)

\* C2, amended: a stream yields an id exactly when it adds it to its window,
\* and an id that was added is added (and so yielded) again only after it has
\* been evicted, that is after at least WindowCap later additions.
C2_NotWhileInWindow ==
    /\ \A i, j \in 1..Len(inserted) :
          (i < j /\ inserted[i] = inserted[j]) => j - i > WindowCap
    /\ delivered = LastN(inserted, Len(delivered))
    /\ IdsOf(yielded) = LastN(delivered, Len(yielded))

\* an id has been delivered, evicted and delivered again
C2_Witness ==
    /\ stream[2] \in {"reports", "queue"}
    /\ ~IsDistinct(delivered)

\* C3: a window never holds more than WindowCap ids, holds none twice, and
\* holds the WindowCap most recently added ids, oldest first, once that many
\* have been added (all of them before).
C3_WindowBounded ==
    /\ \A s \in Subreddits, c \in Categories :
          /\ Len(ids[s][c]) <= WindowCap
          /\ IsDistinct(ids[s][c])
    /\ Window = LastN(inserted, WindowCap)

\* more ids than a window holds have been added to the window of get_new
C3_Witness ==
    /\ stream[2] = "new"
    /\ Cardinality(Range(inserted)) > WindowCap
    /\ Len(Window) = WindowCap

-----------------------------------------------------------------------------
(* EventFilter *)

\* ItemAttribute values
ItemAttributes == {"subreddit", "author", "mod"}

EventFilter(attribute, values, reverse) ==
    [attribute |-> attribute, values |-> values, reverse |-> reverse]

\* A GeneratorIdentifier member as an object: it has no type, subreddit or
\* get_author_name attribute.
GeneratorIdentifier(c) == [class |-> "GeneratorIdentifier", value |-> c]

\* the result of a call: a returned value, or the exception it raised
Return(v) == [raised |-> "", value |-> v]
Raise(exc) == [raised |-> exc, value |-> FALSE]

\* `any(name.lower() == str(v).lower() for v in self._values)`
AnyValue(f, name) == \E v \in f.values : Lower(name) = Lower(v)

\* the ladder with reverse turning a non-match into an accept
MatchLadderXor(f, name) ==
    Return(AnyValue(f, name) # f.reverse)

\* the match / reverse ladder that the three attributes share
MatchLadder(f, name) ==
    IF ~AnyValue(f, name) THEN Return(FALSE)
    ELSE IF f.reverse THEN Return(FALSE)
    ELSE Return(TRUE)

is_item_valid(f, item) ==
    IF f.values = {} THEN Return(TRUE)
    ELSE IF item.class # "RedditItem" THEN Raise("AttributeError")
    ELSE IF f.attribute = "mod"
         THEN IF item.type # "mod action" THEN Return(FALSE)
              ELSE MatchLadder(f, get_author_name(item))
    ELSE IF f.attribute = "author" THEN MatchLadder(f, get_author_name(item))
    ELSE IF f.attribute = "subreddit" THEN MatchLadder(f, item.subreddit)
    ELSE Return(TRUE)

is_subreddit_valid(f, subreddit) ==
    (\E v \in f.values : Lower(subreddit) = Lower(v)) \/ f.values = {}

-----------------------------------------------------------------------------
(* is_item_valid called on one filter and one item *)

FilterValues == SUBSET {"a", "X", "Y"}

Filters ==
    {EventFilter(a, v, r) : a \in ItemAttributes, v \in FilterValues, r \in BOOLEAN}

Items ==
    {RedditItem([id |-> 1, kind |-> k, author |-> a], s,
                IF k = "ModAction" THEN "log" ELSE "new") :
        k \in Kinds, a \in Authors, s \in Subreddits}

IdleStream ==
    /\ stream = <<"A", "new">>
    /\ ids = NoIds
    /\ skip = AllSkip
    /\ fetched = <<>>
    /\ yielded = <<>>
    /\ inserted = <<>>
    /\ delivered = <<>>

InitFilter ==
    /\ call_filter \in Filters
    /\ call_item \in Items
    /\ call_result = Pending
    /\ IdleStream
    /\ IdlePoll
    /\ IdleReact
    /\ IdleRule
    /\ IdleSetup

Validate ==
    /\ call_result = Pending
    /\ call_result' = is_item_valid(call_filter, call_item)
    /\ UNCHANGED <<call_filter, call_item, streamVars, pollVars, reactVars, ruleVars,
                   setupVars>>

NextFilter == Validate

SpecFilter == InitFilter /\ [][NextFilter]_vars

\* the value of the attribute a filter looks at
AttributeOf(f, item) ==
    IF f.attribute = "subreddit" THEN item.subreddit ELSE get_author_name(item)

\* the attribute equals one of the filter's values, whatever the case
Matches(f, item) ==
    \E v \in f.values : Lower(AttributeOf(f, item)) = Lower(v)

Validated == call_result.raised = ""

\* C7 as stated: a filter without values accepts every item; one with
\* values accepts an item iff (its attribute matches a value) XOR invert.
C7_MatchXorInvert ==
    Validated =>
        call_result.value =
            IF call_filter.values = {} THEN TRUE
            ELSE Matches(call_filter, call_item) # call_filter.reverse

\* C7, amended: a filter without values accepts every item; one with values
\* accepts an item iff its attribute matches a value, whatever the case, and
\* invert is not set; a mod filter with values moreover rejects every item
\* that is not a mod action.  is_item_valid raises nothing on an item.
C7_MatchAndNotInvert ==
    /\ call_result.raised \in {"", "pending"}
    /\ Validated =>
          call_result.value =
              IF call_filter.values = {} THEN TRUE
              ELSE /\ Matches(call_filter, call_item)
                   /\ ~call_filter.reverse
                   /\ call_filter.attribute = "mod" => call_item.type = "mod action"

\* a filter with values has accepted an item whose name differs in case from
\* the matching value
C7_Witness ==
    /\ Validated
    /\ call_result.value
    /\ call_filter.values # {}
    /\ AttributeOf(call_filter, call_item) \notin call_filter.values

\* C23: with invert set and a non-empty value set, a filter rejects the item
\* whose attribute matches a value and rejects the item whose attribute
\* matches none as well.
C23_InvertNeverAccepts ==
    (Validated /\ call_filter.reverse /\ call_filter.values # {}) =>
        ~call_result.value

\* an inverting filter with values has rejected an item that matches none of
\* them
C23_Witness ==
    /\ Validated
    /\ call_filter.reverse
    /\ call_filter.values # {}
    /\ ~Matches(call_filter, call_item)
    /\ ~call_result.value

-----------------------------------------------------------------------------
(* EventHandler *)

\* A callback: whether it is a coroutine function, and the number of
\* positional arguments it takes.
Callback(name, coroutine, params) ==
    [name |-> name, coroutine |-> coroutine, params |-> params]

EventHandler(callback, identifier, filters) ==
    [callback |-> callback, identifier |-> identifier, filters |-> filters]

\* `for f in self._filters`: TRUE when every filter accepts obj, FALSE at the
\* first one that rejects it, the exception of the first one that raises
RECURSIVE FiltersValid(_, _)
FiltersValid(filters, obj) ==
    IF filters = <<>> THEN Return(TRUE)
    ELSE LET r == is_item_valid(Head(filters), obj)
         IN  IF r.raised # "" THEN r
             ELSE IF ~r.value THEN Return(FALSE)
             ELSE FiltersValid(Tail(filters), obj)

\* EventHandler.__call__(*args): "ran" when the callback was called with
\* args and took them, "skipped" when a filter rejected args[-1], else the
\* exception raised
EventHandlerCall(h, args) ==
    LET valid == FiltersValid(h.filters, args[Len(args)])
    IN  IF valid.raised # "" THEN valid.raised
        ELSE IF ~valid.value THEN "skipped"
        ELSE IF Len(args) # h.callback.params THEN "TypeError"
        ELSE "ran"

\* the funcs of a handler told apart by the handler they were built for
get_sub_funcs_per_handler(h, subs) ==
    {<<s, h.identifier, h>> : s \in
        {t \in subs :
            \A k \in 1..Len(h.filters) : is_subreddit_valid(h.filters[k], t)}}

get_sub_funcs(h, subs) ==
    {<<s, h.identifier>> : s \in
        {t \in subs :
            \A k \in 1..Len(h.filters) : is_subreddit_valid(h.filters[k], t)}}

\* C35 as stated: when the filter of a handler accepts an item, the handler
\* schedules the stream of the item's subreddit: the subreddit is among
\* those get_sub_funcs keeps, whichever attribute the filter tests.
C35_SchedulingNotStricter ==
    (Validated /\ call_result.value) =>
        <<call_item.subreddit, "new">> \in
            get_sub_funcs(EventHandler(Callback("on_two", TRUE, 2), "new",
                                       <<call_filter>>),
                          Subreddits)

-----------------------------------------------------------------------------
(* Banhammer *)

\* ExponentialCounter(16) in the default arguments of Banhammer.__init__
MaxCounter == 16

\* Banhammer.add_event_handler: the handler list after the call
add_event_handler(handlers, func, identifier, args, subreddit) ==
    IF func.coroutine
    THEN Append(handlers,
                EventHandler(func, identifier,
                             IF subreddit # ""
                             THEN Append(args, EventFilter("subreddit", {subreddit}, FALSE))
                             ELSE args))
    ELSE handlers

\* `for handler in self._event_handlers: await handler(item, identifier)`:
\* the calls made, and the exception that ended the loop ("" when none did)
RECURSIVE HandleLoop(_, _, _, _, _)
HandleLoop(handlers, k, item, identifier, calls) ==
    IF k > Len(handlers) THEN [calls |-> calls, raised |-> ""]
    ELSE LET o == EventHandlerCall(handlers[k], <<item, GeneratorIdentifier(identifier)>>)
             entry == [item |-> item, identifier |-> identifier,
                       handler |-> k, outcome |-> o]
         IN  IF o \in {"ran", "skipped"}
             THEN HandleLoop(handlers, k + 1, item, identifier, Append(calls, entry))
             ELSE [calls |-> Append(calls, entry), raised |-> o]

\* handle_new with the handlers called last registered first
handle_new_last_first(item) ==
    LET r == HandleLoop(event_handlers, 1, item, "new", <<>>)
    IN  [r EXCEPT !.calls = Reversed(@)]

handle_new(item) == HandleLoop(event_handlers, 1, item, "new", <<>>)

handle_comments(item) == HandleLoop(event_handlers, 1, item, "comments", <<>>)

handle_mod_actions(item) == HandleLoop(event_handlers, 1, item, "mod_actions", <<>>)

\* getattr(self, f"handle_{func[1]}")(item)
Handle(identifier, item) ==
    IF identifier = "new" THEN handle_new(item)
    ELSE IF identifier = "mod_actions" THEN handle_mod_actions(item)
    ELSE handle_comments(item)

\* func[0](): getattr(subreddit, f"get_{identifier}") called without arguments
Get(identifier, w, skipping, subreddit, listing) ==
    IF identifier = "new" THEN get_new(w, skipping, subreddit, listing)
    ELSE IF identifier = "mod_actions"
         THEN get_mod_actions(w, skipping, subreddit, listing, <<>>)
    ELSE get_comments(w, skipping, subreddit, listing)

\* `async for item in func[0](): found = True; await handle(item)`: the items
\* are handled in turn until a handler raises; n counts the items handled
RECURSIVE HandleItems(_, _, _, _)
HandleItems(items, identifier, calls, n) ==
    IF items = <<>> THEN [calls |-> calls, raised |-> "", handled |-> n]
    ELSE LET r == Handle(identifier, Head(items))
         IN  IF r.raised # ""
             THEN [calls |-> calls \o r.calls, raised |-> r.raised, handled |-> n + 1]
             ELSE HandleItems(Tail(items), identifier, calls \o r.calls, n + 1)

\* the part of a listing (newest first) from the entry with id i on: what the
\* generator has examined when it yields the item with id i
RECURSIVE From(_, _)
From(listing, i) ==
    IF listing = <<>> \/ Head(listing).id = i THEN listing
    ELSE From(Tail(listing), i)

\* ExponentialCounter.count(): the value returned and the base left behind
Count(base) == [value |-> base, base |-> IF 2 * base > MaxCounter THEN MaxCounter ELSE 2 * base]

\* ExponentialCounter.reset(): returns None and leaves the base at 1
Reset(base) == [value |-> 0, base |-> 1]

\* the wait time taken from the counter without the reset
WaitTimeNoReset(was_found, base) == Count(base)

\* `wait_time = (found and self._counter.reset()) or self._counter.count()`
\* (None is falsy, and so is the 0 that stands for it)
WaitTime(was_found, base) ==
    IF was_found
    THEN LET r == Reset(base)
         IN  IF r.value # 0 THEN r ELSE Count(r.base)
    ELSE Count(base)

-----------------------------------------------------------------------------
(* The poll loop: handlers are registered, then send_items runs *)

\* Longest handler list followed.
MaxHandlers == 2

\* the identifiers the registered handlers are bound to
PollIdentifiers == {"new", "comments"}

\* what a listing fetched by the poll loop can hold
PollListings(identifier) ==
    {l \in Listings(IF identifier = "new" THEN "Submission" ELSE "Comment") :
        Len(l) <= 1 /\ \A k \in 1..Len(l) : l[k].id = 1}

\* callbacks: one that takes the item alone, as the decorators' documentation
\* shows it, and one that takes two positional arguments
OnItem == Callback("on_item", TRUE, 1)
OnTwo == Callback("on_two", TRUE, 2)

\* the add_event_handler calls followed: <<func, identifier, args, subreddit>>
Registrations ==
    {<<OnTwo, "new", <<>>, "">>,
     <<OnTwo, "comments", <<>>, "">>,
     <<OnItem, "new", <<>>, "">>,
     <<OnTwo, "new", <<>>, "a">>,
     <<OnTwo, "new", <<EventFilter("subreddit", {"a"}, FALSE),
                       EventFilter("author", {"x"}, FALSE)>>, "">>}

InitPoll ==
    /\ event_handlers = <<>>
    /\ counter = 1
    /\ pc = "idle"
    /\ todo = {}
    /\ found = FALSE
    /\ wait_time = 0
    /\ log = <<>>
    /\ drained = {}
    /\ failed = {}
    /\ stream = <<"A", "new">>
    /\ ids = NoIds
    /\ skip = AllSkip
    /\ fetched = <<>>
    /\ yielded = <<>>
    /\ inserted = <<>>
    /\ delivered = <<>>
    /\ IdleFilter
    /\ IdleReact
    /\ IdleRule
    /\ IdleSetup

pollFrame == <<stream, fetched, yielded, inserted, delivered, filterVars, reactVars,
               ruleVars, setupVars>>

\* a handler is registered before the loop is started
AddHandler ==
    /\ pc = "idle"
    /\ Len(event_handlers) < MaxHandlers
    /\ \E r \in Registrations :
          event_handlers' = add_event_handler(event_handlers, r[1], r[2], r[3], r[4])
    /\ UNCHANGED <<counter, pc, todo, found, wait_time, log, drained, failed,
                   ids, skip, pollFrame>>

\* Banhammer.start: the task running send_items is created
Start ==
    /\ pc = "idle"
    /\ pc' = "started"
    /\ UNCHANGED <<event_handlers, counter, todo, found, wait_time, log, drained,
                   failed, ids, skip, pollFrame>>

\* the head of the `while True` body: funcs is built, found is cleared
BeginTick ==
    /\ pc \in {"started", "sleeping"}
    /\ pc' = "draining"
    /\ todo' = UNION {get_sub_funcs(event_handlers[k], Subreddits) :
                        k \in 1..Len(event_handlers)}
    /\ found' = FALSE
    /\ log' = <<>>
    /\ drained' = {}
    /\ failed' = {}
    /\ UNCHANGED <<event_handlers, counter, wait_time, ids, skip, pollFrame>>

\* `for func in funcs`: the fetch of one func raises, and with it send_items
FetchFails ==
    /\ pc = "draining"
    /\ \E f \in todo :
          /\ failed' = failed \cup {f}
          /\ pc' = "crashed"
    /\ UNCHANGED <<event_handlers, counter, todo, found, wait_time, log, drained,
                   ids, skip, pollFrame>>

\* `for func in funcs`: one func is drained, each item it yields going to the
\* handlers before the next one is drawn; a handler that raises ends
\* send_items with the generator suspended at the item
DrainFunc ==
    /\ pc = "draining"
    /\ \E f \in todo : \E b \in PollListings(f[2]) :
          LET s == f[1]
              c == f[2]
              r == Get(c, ids[s][c], skip[s][c], s, b)
              h == HandleItems(r.out, c, <<>>, 0)
          IN  /\ log' = log \o h.calls
              /\ found' = (found \/ h.handled > 0)
              /\ IF h.raised = ""
                 THEN /\ ids' = [ids EXCEPT ![s][c] = r.ids]
                      /\ skip' = [skip EXCEPT ![s][c] = r.skip]
                      /\ drained' = drained \cup {f}
                      /\ todo' = todo \ {f}
                      /\ pc' = "draining"
                 ELSE /\ ids' = [ids EXCEPT ![s][c] =
                                    Get(c, ids[s][c], skip[s][c], s,
                                        From(b, r.out[h.handled].id)).ids]
                      /\ pc' = "crashed"
                      /\ UNCHANGED <<skip, drained, todo>>
    /\ UNCHANGED <<event_handlers, counter, wait_time, failed, pollFrame>>

\* the tail of the `while True` body: the wait time is taken from the counter
\* and the loop sleeps
EndTick ==
    /\ pc = "draining"
    /\ todo = {}
    /\ pc' = "sleeping"
    /\ wait_time' = WaitTime(found, counter).value
    /\ counter' = WaitTime(found, counter).base
    /\ UNCHANGED <<event_handlers, todo, found, log, drained, failed, ids, skip,
                   pollFrame>>

NextPoll == AddHandler \/ Start \/ BeginTick \/ FetchFails \/ DrainFunc \/ EndTick

SpecPoll == InitPoll /\ [][NextPoll]_vars

-----------------------------------------------------------------------------
(* Properties of the poll loop *)

\* the funcs of the current tick
Scheduled ==
    UNION {get_sub_funcs(event_handlers[k], Subreddits) : k \in 1..Len(event_handlers)}

\* every filter of h accepts the item, each evaluated on the item itself
ItemAccepted(h, item) ==
    \A k \in 1..Len(h.filters) : is_item_valid(h.filters[k], item) = Return(TRUE)

\* C4 as stated: a fetch that fails in a tick is caught by the loop, which
\* goes on to drain every other func of the tick and then sleeps.
C4_FetchErrorIsolated ==
    failed # {} =>
        /\ pc # "crashed"
        /\ pc = "sleeping" => drained = Scheduled \ failed

\* C5 as stated: in the poll loop a handler runs its callback for an item
\* of its category iff every filter of its chain accepts the item.
C5_RunsIffFiltersAccept ==
    \A k \in 1..Len(log) :
        LET h == event_handlers[log[k].handler]
        IN  h.identifier = log[k].identifier =>
                ((log[k].outcome = "ran") <=> ItemAccepted(h, log[k].item))

\* C6 as stated: calling a handler with an item drawn from a stream of
\* another category than the handler's is a no-op, its callback does not run.
C6_OtherCategoryIsNoOp ==
    \A k \in 1..Len(log) :
        event_handlers[log[k].handler].identifier # log[k].identifier =>
            log[k].outcome # "ran"

\* C8: the wait of a tick that found an item is the floor, 1; the wait of a
\* tick that found none is larger than the wait of the tick before, until
\* that has reached MaxCounter, and then it is MaxCounter again.
C8_Backoff ==
    [][(pc = "draining" /\ pc' = "sleeping") =>
          IF found THEN wait_time' = 1
          ELSE IF wait_time = MaxCounter THEN wait_time' = MaxCounter
          ELSE wait_time' > wait_time /\ wait_time' <= MaxCounter]_vars

\* a tick that handed an item to a handler has ended, the loop sleeps for
\* the floor
C8_Witness ==
    /\ pc = "sleeping"
    /\ found
    /\ log # <<>>
    /\ wait_time = 1

\* the calls of the tick in which handler j ran its callback on the item of
\* the call log[k]
RanOn(j, k) ==
    {n \in 1..Len(log) : /\ log[n].handler = j
                         /\ log[n].item = log[k].item
                         /\ log[n].identifier = log[k].identifier
                         /\ log[n].outcome = "ran"}

\* C25 as stated: when a tick is over, every handler bound to the category
\* of an item the tick handed out, and whose filters all accept the item,
\* has run its callback on that item exactly once.
C25_AcceptingHandlersRunOnce ==
    pc \in {"sleeping", "crashed"} =>
        \A k \in 1..Len(log), j \in 1..Len(event_handlers) :
            (/\ event_handlers[j].identifier = log[k].identifier
             /\ ItemAccepted(event_handlers[j], log[k].item))
            => Cardinality(RanOn(j, k)) = 1

\* C26: within a tick a stream is drawn at most once, however many handlers
\* select it: the funcs of a tick hold each (subreddit, category) once, a
\* func that was drained is not drained again, and a handler is called once
\* for an item, not once per handler that selected the stream.
C26_DrawnOncePerTick ==
    /\ \A f, g \in todo \cup drained : (f[1] = g[1] /\ f[2] = g[2]) => f = g
    /\ todo \cap drained = {}
    /\ \A n, m \in 1..Len(log) :
          (/\ n # m
           /\ log[n].handler = log[m].handler
           /\ log[n].identifier = log[m].identifier)
          => log[n].item # log[m].item

\* a tick has ended in which two handlers selected the stream of new
\* submissions of one subreddit, and both were called for the item it
\* yielded
C26_Witness ==
    /\ pc = "sleeping"
    /\ Len(event_handlers) = 2
    /\ <<"A", "new">> \in get_sub_funcs(event_handlers[1], Subreddits)
    /\ <<"A", "new">> \in get_sub_funcs(event_handlers[2], Subreddits)
    /\ <<"A", "new">> \in drained
    /\ \E n, m \in 1..Len(log) :
          /\ log[n].handler = 1
          /\ log[m].handler = 2
          /\ log[n].item = log[m].item
          /\ log[n].item.subreddit = "A"

\* the calls n and m of the log are for the same item of the same stream
SameItem(n, m) ==
    log[n].item = log[m].item /\ log[n].identifier = log[m].identifier

\* C27: callbacks do not overlap and follow the registration order: the
\* calls of a tick are, item after item, the handlers 1, 2, ... in turn; the
\* calls for an item start only when every handler was called for the item
\* before it, and a call that raised is the last one.
C27_OneCallbackAtATime ==
    \A n \in 1..Len(log) :
        /\ n = 1 => log[n].handler = 1
        /\ n > 1 =>
              IF SameItem(n - 1, n)
              THEN log[n].handler = log[n - 1].handler + 1
              ELSE /\ log[n].handler = 1
                   /\ log[n - 1].handler = Len(event_handlers)
        /\ log[n].outcome \notin {"ran", "skipped"} => n = Len(log)

\* a tick has ended in which two items were handed, one after the other, to
\* two handlers each
C27_Witness ==
    /\ pc = "sleeping"
    /\ Len(event_handlers) = 2
    /\ Len(log) = 4
    /\ ~SameItem(2, 3)

-----------------------------------------------------------------------------
(* The reactions of one subreddit: rules are looked up for items and run *)

\* Most Reaction.handle calls followed.
MaxCalls == 2

Check == <<"check">>
Cross == <<"cross">>

\* the records of the reactions pages followed
Approve == [emoji |-> Check, type |-> "", approve |-> TRUE]
RemoveComment == [emoji |-> <<" ">> \o Check, type |-> "comment", approve |-> FALSE]
Ban == [emoji |-> Cross, reply |-> "no", ban |-> <<0>>]
Archive == [emoji |-> Check, type |-> "mail", archive |-> TRUE, reply |-> "hi"]

RuleLists ==
    {[k \in 1..Len(l) |-> Reaction(l[k])] :
        l \in {<<Approve, RemoveComment>>, <<RemoveComment, Approve>>,
               <<Archive, Ban>>}}

\* the items reacted to
ReactItems ==
    {RedditItem([id |-> 1, kind |-> k, author |-> "X"], "A", "new") :
        k \in {"Submission", "Comment", "ModmailConversation"}}
    \cup {RedditItem([id |-> 1, kind |-> "Comment", author |-> "None"], "A", "new")}

\* the calls to the content source that can fail
FailingCalls == {"reply"}

InitReact ==
    /\ reactions \in RuleLists
    /\ default_payload = ReactionPayload("Banhammer")
    /\ handled = 0
    /\ outcome = NoCall
    /\ issued = <<>>
    /\ performed = <<>>
    /\ IdleStream
    /\ IdleFilter
    /\ IdlePoll
    /\ IdleRule
    /\ IdleSetup

\* the two copies of RedditItem
ItemCopies == {"banhammer.item", "banhammer.models.item"}

\* RedditItem.get_reaction.  In banhammer/item.py the rule returned is given
\* the item, and when no rule is returned the assignment to None's attribute
\* raises; in banhammer/models/item.py what Subreddit.get_reaction returned
\* is handed on as it is, None (0) included
GetReaction ==
    /\ \E item \in ReactItems, emoji \in {Check, Cross}, copy \in ItemCopies :
          LET r == get_reaction(reactions, emoji, item.item)
              sets == copy = "banhammer.item"
          IN  /\ outcome' = [op |-> "get_reaction", emoji |-> emoji, item |-> item,
                             copy |-> copy,
                             raised |-> IF r = 0 /\ sets THEN "AttributeError" ELSE "",
                             value |-> r]
              /\ reactions' = IF r = 0 \/ ~sets THEN reactions
                              ELSE [reactions EXCEPT ![r].item = item]
    /\ issued' = <<>>
    /\ performed' = <<>>
    /\ UNCHANGED <<default_payload, handled, streamVars, filterVars, pollVars, ruleVars,
                   setupVars>>

\* Reaction.handle on a rule of the list, with or without a payload of the
\* caller's, a user and an item; without a payload the call works on the
\* object that is the parameter's default
HandleReaction ==
    /\ handled < MaxCalls
    /\ \E k \in 1..Len(reactions), explicit \in BOOLEAN, user \in {"", "mod"},
          item \in ReactItems \cup {None}, fail \in FailingCalls \cup {""} :
          LET h == handle(reactions[k],
                          IF explicit THEN ReactionPayload("Banhammer")
                          ELSE default_payload,
                          user, item, fail)
          IN  /\ outcome' = [op |-> "handle", explicit |-> explicit,
                             raised |-> h.raised, value |-> h.payload]
              /\ default_payload' = IF explicit THEN default_payload ELSE h.payload
              /\ issued' = h.issued
              /\ performed' = h.performed
    /\ handled' = handled + 1
    /\ UNCHANGED <<reactions, streamVars, filterVars, pollVars, ruleVars, setupVars>>

NextReact == GetReaction \/ HandleReaction

SpecReact == InitReact /\ [][NextReact]_vars

\* C9 as stated: the payload a handle call without an explicit payload
\* returns lists only the tags of the actions performed in that call.
C9_OwnPayload ==
    (outcome.op = "handle" /\ ~outcome.explicit /\ outcome.raised = "") =>
        outcome.value.actions = performed

\* the rules of the list whose emoji is the one asked for and that are
\* eligible for the item asked about
Fitting ==
    {k \in 1..Len(reactions) :
        /\ reactions[k].emoji = outcome.emoji
        /\ eligible(reactions[k], outcome.item.item)}

\* C10: when a rule of the list has the requested emoji and is eligible for
\* the item, get_reaction returns the first such rule in list order.
C10_FirstEligibleMatch ==
    (outcome.op = "get_reaction" /\ Fitting # {}) =>
        /\ outcome.raised = ""
        /\ outcome.value \in Fitting
        /\ \A k \in Fitting : outcome.value <= k

\* a lookup for which two rules of the list fit has returned the first
C10_Witness ==
    /\ outcome.op = "get_reaction"
    /\ Cardinality(Fitting) = 2
    /\ outcome.value = 1
    /\ reactions[1].item = outcome.item

-----------------------------------------------------------------------------
(* One rule and one item: Reaction.eligible is asked, or Reaction.handle is *)
(* called with a payload of the caller's                                   *)

\* the rules a reactions page can give
Rules ==
    {Reaction([emoji |-> Check, type |-> t, approve |-> a, lock |-> l, ban |-> b,
               reply |-> r, flair |-> f, mark_nsfw |-> n, archive |-> ar, mute |-> m]) :
        t \in {"", "submission", "comment", "mail"}, a \in BOOLEAN, l \in BOOLEAN,
        b \in {<<>>, <<0>>, <<5>>}, r \in {"", "no"}, f \in {"", "rule 1"},
        n \in BOOLEAN, ar \in BOOLEAN, m \in BOOLEAN}

\* the items a rule is asked about: one of every kind of content, and the
\* submission and the comment of an author who is gone
RuleItems ==
    {RedditItem([id |-> 1, kind |-> k, author |-> "X"], "A",
                IF k = "ModAction" THEN "log" ELSE "new") : k \in Kinds}
    \cup {RedditItem([id |-> 1, kind |-> k, author |-> "None"], "A", "new") :
            k \in {"Submission", "Comment"}}

InitRule ==
    /\ run_rule \in Rules
    /\ run_item \in RuleItems \cup {None}
    /\ run_fail \in {"", "lock", "reply"}
    /\ run_result = NoCall
    /\ IdleStream
    /\ IdleFilter
    /\ IdlePoll
    /\ IdleReact
    /\ IdleSetup

\* rule.eligible(item.item)
AskEligible ==
    /\ run_result = NoCall
    /\ run_item # None
    /\ run_fail = ""
    /\ run_result' = [op |-> "eligible", raised |-> "",
                      value |-> eligible(run_rule, run_item.item)]
    /\ UNCHANGED <<run_rule, run_item, run_fail, streamVars, filterVars, pollVars,
                   reactVars, setupVars>>

\* rule.handle(payload, item=item) with a new ReactionPayload as payload
RunRule ==
    /\ run_result = NoCall
    /\ LET h == handle(run_rule, ReactionPayload("Banhammer"), "", run_item, run_fail)
       IN  run_result' = [op |-> "handle", raised |-> h.raised, payload |-> h.payload,
                          issued |-> h.issued, performed |-> h.performed]
    /\ UNCHANGED <<run_rule, run_item, run_fail, streamVars, filterVars, pollVars,
                   reactVars, setupVars>>

NextRule == AskEligible \/ RunRule

SpecRule == InitRule /\ [][NextRule]_vars

\* the type a rule names for the item: "mail" for a modmail item
ConcreteType(item) == IF item.type = "modmail" THEN "mail" ELSE item.type

AskedEligible == run_result.op = "eligible"

\* C11 as stated: eligible is true iff the item is a submission, a comment
\* or a mail item and the rule's type is unset or is the item's type.
C11_UnsetMatchesAny ==
    AskedEligible =>
        (run_result.value <=>
            /\ run_item.type \in {"submission", "comment", "modmail"}
            /\ run_rule.type \in {"", ConcreteType(run_item)})

\* C11, amended: eligible is true iff the item is a submission or a comment
\* and the rule's type is unset or is the item's type, or the item is a mail
\* item and the rule's type is "mail"; it is false for a mod action.
C11_UnsetMatchesPosts ==
    AskedEligible =>
        (run_result.value <=>
            \/ /\ run_item.type \in {"submission", "comment"}
               /\ run_rule.type \in {"", run_item.type}
            \/ /\ run_item.type = "modmail"
               /\ run_rule.type = "mail")

\* a rule without a type was asked about a mail item and is not eligible
C11_Witness ==
    /\ AskedEligible
    /\ run_rule.type = ""
    /\ run_item.type = "modmail"
    /\ ~run_result.value

\* C12 as stated: a lookup for which no rule of the list has the requested
\* emoji and is eligible for the item raises the "not eligible" error
\* (exceptions.NotEligibleItem); it returns nothing to the caller.
C12_NoRuleIsNotEligibleError ==
    (outcome.op = "get_reaction" /\ Fitting = {}) =>
        outcome.raised = "NotEligibleItem"

Ran == run_result.op = "handle"

\* C13: handle called with no item at all raises NoItemGiven, handle called
\* for an item the rule is not eligible for raises NotEligibleItem; in both
\* cases no call to the content source was issued and the payload is as the
\* caller made it.
C13_FailsFast ==
    (Ran /\ (run_item = None \/ ~eligible(run_rule, run_item.item))) =>
        /\ run_result.raised =
              IF run_item = None THEN "NoItemGiven" ELSE "NotEligibleItem"
        /\ run_result.issued = <<>>
        /\ run_result.performed = <<>>
        /\ run_result.payload = ReactionPayload("Banhammer")

\* an approving rule that replies was run on an item it is not eligible for
C13_Witness ==
    /\ Ran
    /\ run_item # None
    /\ run_rule.approve
    /\ run_rule.reply # ""
    /\ run_result.raised = "NotEligibleItem"

\* the steps gen_handle takes for the rule and the item when none fails
Bundle(reaction, item) ==
    IF item.item.kind \in {"ModmailConversation", "ModmailMessage"}
    THEN MailSteps(reaction, item)
    ELSE IF is_removed(item) \/ is_author_removed(item) THEN RemovedSteps(item)
    ELSE ItemSteps(reaction, item)

\* the steps of a bundle whose call does not fail
Succeeding(steps, fail) ==
    LET Succeeds(st) == st.call # fail
    IN  SelectSeq(steps, Succeeds)

\* the tags of steps, in order
RECURSIVE TagsOf(_)
TagsOf(steps) ==
    IF steps = <<>> THEN <<>>
    ELSE (IF Head(steps).tag = "" THEN <<>> ELSE <<Head(steps).tag>>)
         \o TagsOf(Tail(steps))

\* the rule was run on an item it is eligible for
RanEligible == Ran /\ run_item # None /\ eligible(run_rule, run_item.item)

\* C14 as stated: when a call of the bundle fails the other calls of the
\* bundle are still issued, in order, and the execution returns a payload
\* that lists the tags of the actions that succeeded.
C14_FailureIsolated ==
    RanEligible =>
        LET ok == Succeeding(Bundle(run_rule, run_item), run_fail)
        IN  /\ run_result.raised = ""
            /\ run_result.issued = [k \in 1..Len(ok) |-> CallOf(ok[k])]
            /\ run_result.payload.actions = TagsOf(ok)

\* the calls of the given name that the run issued
Issued(call) ==
    {k \in 1..Len(run_result.issued) : run_result.issued[k].call = call}

\* the rule was run to its end on a submission or a comment that is there,
\* and whose author is
RanOnPost ==
    /\ RanEligible
    /\ run_result.raised = ""
    /\ run_item.type \in {"submission", "comment"}
    /\ run_item.item.author # "None"

CallRank(call) ==
    CASE call \in {"approve", "remove"} -> 1
      [] call \in {"lock", "unlock"} -> 2
      [] call = "flair" -> 3
      [] call = "nsfw" -> 4
      [] call \in {"reply", "distinguish"} -> 5
      [] OTHER -> 6

\* the place of a tag in [approved|removed, locked, flaired, marked NSFW,
\* replied to, ban tag]
TagRank(tag) ==
    CASE tag \in {"approved", "removed"} -> 1
      [] tag = "locked" -> 2
      [] tag = "flaired" -> 3
      [] tag = "marked NSFW" -> 4
      [] tag = "replied to" -> 5
      [] OTHER -> 6

\* the rule was run, to its end or to a call that failed, on a submission
\* or a comment that is there, and whose author is
StartedOnPost ==
    /\ RanEligible
    /\ run_item.type \in {"submission", "comment"}
    /\ run_item.item.author # "None"

StartedOnRemoved ==
    /\ RanEligible
    /\ run_item.type \in {"submission", "comment"}
    /\ run_item.item.author = "None"

StartedOnMail ==
    /\ RanEligible
    /\ run_item.type = "modmail"

\* C30 as stated: for a mail item only archive (if rule.archive), mute (if
\* rule.mute) and reply (if rule.reply is not empty) are issued, in that
\* order and each on the conversation; approve, remove, lock, unlock, flair,
\* NSFW mark and ban are never issued, whatever the rule's other fields.
C30_MailBundle ==
    StartedOnMail =>
        LET calls == run_result.issued
            wanted == (IF run_rule.archive THEN <<"archive">> ELSE <<>>)
                      \o (IF run_rule.mute THEN <<"mute">> ELSE <<>>)
                      \o (IF run_rule.reply # "" THEN <<"reply">> ELSE <<>>)
        IN  /\ \A k \in 1..Len(calls) :
                  /\ calls[k].call \in {"archive", "mute", "reply"}
                  /\ calls[k].on = "ModmailConversation"
            /\ run_result.raised = "" =>
                  [k \in 1..Len(calls) |-> calls[k].call] = wanted

-----------------------------------------------------------------------------
(* Setting a Banhammer up: handlers are declared in the body of a subclass *)
(* with the decorators of EventHandler, the instance is constructed, and    *)
(* callbacks are registered on the instance                                *)

NoKwargs == <<>>

\* an EventHandler, as opposed to a function
IsEventHandler(x) == "callback" \in DOMAIN x

\* getattr(func, "_filters", tuple())
FiltersOf(func) == IF "filters" \in DOMAIN func THEN func.filters ELSE <<>>

\* the names given with subreddit= in the model, and str() of the tuple of
\* their characters
ReprOfChars(name) ==
    CASE name = "a" -> "('a',)"
      [] name = "A" -> "('A',)"
      [] OTHER -> "()"

\* EventHandler.filter(attribute, *args)(handler): the handler or function
\* with one more filter
filter(attribute, values, handler) ==
    IF ~IsEventHandler(handler) /\ ~handler.coroutine THEN Raise("TypeError")
    ELSE IF IsEventHandler(handler)
    THEN Return([handler EXCEPT !.filters = Append(@, EventFilter(attribute, values, FALSE))])
    ELSE Return([filters |-> Append(FiltersOf(handler),
                                    EventFilter(attribute, values, FALSE))] @@ handler)

\* EventHandler.create_event_handler.  tuple() takes one argument, so a
\* subreddits= that is not empty raises; a subreddit= name is cut into its
\* characters, and the tuple of them is the one value of the filter
create_event_handler(func, identifier, args, kwargs) ==
    IF ~func.coroutine THEN Raise("TypeError")
    ELSE IF Kwarg(kwargs, "subreddits", <<>>) # <<>> THEN Raise("TypeError")
    ELSE LET given == args \o FiltersOf(func)
             name == Kwarg(kwargs, "subreddit", "")
         IN  Return(EventHandler(func, identifier,
                        IF name = "" THEN given
                        ELSE Append(given,
                                    EventFilter("subreddit", {ReprOfChars(name)}, FALSE))))

\* the filter decorators of stack applied to x, the lowest one first
RECURSIVE Stacked(_, _)
Stacked(stack, x) ==
    IF stack = <<>> THEN Return(x)
    ELSE LET r == filter(Head(stack).attribute, Head(stack).values, x)
         IN  IF r.raised # "" THEN r ELSE Stacked(Tail(stack), r.value)

\* a method of the subclass decorated with the filters of stack and with the
\* category decorator, which stands above or below the filters
Decorated(func, identifier, stack, kwargs, above) ==
    IF above
    THEN LET r == Stacked(stack, func)
         IN  IF r.raised # "" THEN r
             ELSE create_event_handler(r.value, identifier, <<>>, kwargs)
    ELSE LET r == create_event_handler(func, identifier, <<>>, kwargs)
         IN  IF r.raised # "" THEN r ELSE Stacked(stack, r.value)

\* the functions decorated or registered: coroutine functions, and one that
\* is a plain function
SomeName == Callback("some_name", TRUE, 2)
Plain == Callback("plain", FALSE, 1)

\* the stacks of filter decorators followed, the lowest decorator first
FilterStacks ==
    {<<>>,
     <<EventFilter("subreddit", {"a"}, FALSE)>>,
     <<EventFilter("subreddit", {"a"}, FALSE), EventFilter("author", {"X"}, FALSE)>>}

InitSetup ==
    /\ declared = <<>>
    /\ subreddits = <<>>
    /\ setup = NoCall
    /\ event_handlers = <<>>
    /\ counter = 1
    /\ pc = "class"
    /\ todo = {}
    /\ found = FALSE
    /\ wait_time = 0
    /\ log = <<>>
    /\ drained = {}
    /\ failed = {}
    /\ IdleStream
    /\ IdleFilter
    /\ IdleReact
    /\ IdleRule

setupFrame == <<counter, todo, found, wait_time, log, drained, failed, subreddits,
                streamVars, filterVars, reactVars, ruleVars>>

\* the body of the subclass: a method is decorated; an exception raised by
\* a decorator ends the class statement
DeclareHandler ==
    /\ pc = "class"
    /\ Len(declared) < MaxHandlers
    /\ \E func \in {SomeName, Plain}, identifier \in PollIdentifiers,
          stack \in FilterStacks, above \in BOOLEAN :
          LET r == Decorated(func, identifier, stack, NoKwargs, above)
          IN  /\ setup' = [op |-> "decorator", func |-> func, stacked |-> Len(stack),
                           raised |-> r.raised, added |-> FALSE]
              /\ declared' = IF r.raised = "" THEN Append(declared, r.value) ELSE declared
              /\ pc' = IF r.raised = "" THEN pc ELSE "crashed"
    /\ UNCHANGED <<event_handlers, setupFrame>>

\* Banhammer.__init__ on the subclass
Construct ==
    /\ pc = "class"
    /\ pc' = "idle"
    /\ event_handlers' = <<>>
    /\ setup' = [op |-> "__init__", raised |-> ""]
    /\ UNCHANGED <<declared, setupFrame>>

\* Banhammer.add_event_handler on the instance, as new(), comments() and the
\* add_*_handler methods call it
Register ==
    /\ pc = "idle"
    /\ Len(declared) + Len(event_handlers) < MaxHandlers
    /\ \E func \in {OnItem, Plain}, identifier \in PollIdentifiers, subreddit \in {"", "a"} :
          LET after == add_event_handler(event_handlers, func, identifier, <<>>, subreddit)
          IN  /\ event_handlers' = after
              /\ setup' = [op |-> "add_event_handler", func |-> func, raised |-> "",
                           added |-> after # event_handlers]
    /\ UNCHANGED <<declared, pc, setupFrame>>

NextSetup == DeclareHandler \/ Construct \/ Register

SpecSetup == InitSetup /\ [][NextSetup]_vars

Registered == setup.op \in {"decorator", "add_event_handler"}

\* C17 as stated: registering a function that is not a coroutine function
\* raises an error to the caller and adds no handler, through
\* add_event_handler as through the decorators of EventHandler.
C17_RejectsNonCoroutine ==
    (Registered /\ ~setup.func.coroutine) =>
        /\ setup.raised # ""
        /\ ~setup.added

\* C18 as stated: once the instance is constructed, every handler declared
\* in the body of the subclass is in the handler list, with its filters, and
\* stays there while callbacks are registered on the instance.
C18_DeclaredAreHandlers ==
    pc = "idle" =>
        \A k \in 1..Len(declared) :
            \E j \in 1..Len(event_handlers) : event_handlers[j] = declared[k]

-----------------------------------------------------------------------------
(* The poll loop under fairness *)

\* The task of send_items is scheduled whenever it can go on, and every call
\* it awaits returns: a tick that can begin begins, a func that can be
\* drained is drained, and the tick that can end ends.  A fetch may return
\* with an error (FetchFails) but need not.
SpecPollLive ==
    SpecPoll /\ WF_vars(BeginTick) /\ WF_vars(DrainFunc) /\ WF_vars(EndTick)

\* C24 as stated: the poll loop never stops; every tick, one with a failed
\* fetch included, is followed by the end-of-tick sleep, and every sleep by
\* another tick.
C24_LoopNeverStops ==
    /\ (pc = "draining") ~> (pc = "sleeping")
    /\ (pc = "sleeping") ~> (pc = "draining")

-----------------------------------------------------------------------------
(* The mod log: a handler registered through mod_actions, and the poll loop *)

\* the moderators whose actions the log can hold
Moderators == {"X", "Y"}

\* an entry of subreddit.mod.log(): its moderator is its author
ModAction(i, mod) == [id |-> i, kind |-> "ModAction", author |-> mod, mod |-> mod]

\* what a fetch of the mod log can return, newest first: one action per
\* moderator of mods, the ids counting up from the oldest
ModLog(mods) == [k \in 1..Len(mods) |-> ModAction(Len(mods) + 1 - k, mods[k])]

ModActionListings == {ModLog(mods) : mods \in SeqsUpTo(Moderators, MaxBatch)}

\* the names given to mod_actions(...)
ModNames == {{}, {"x"}}

\* Banhammer.add_mod_actions_handler(func, *names): the handler list after
\* the call
add_mod_actions_handler(handlers, func, names) ==
    add_event_handler(handlers, func, "mod_actions",
                      <<EventFilter("mod", names, FALSE)>>, "")

\* @bh.mod_actions(*names) on a callback, before the loop is started
AddModActionsHandler ==
    /\ pc = "idle"
    /\ Len(event_handlers) < MaxHandlers
    /\ \E func \in {OnItem, OnTwo}, names \in ModNames :
          event_handlers' = add_mod_actions_handler(event_handlers, func, names)
    /\ UNCHANGED <<counter, pc, todo, found, wait_time, log, drained, failed,
                   ids, skip, pollFrame>>

\* `for func in funcs` on a get_mod_actions: the log is fetched and drawn,
\* each action yielded going to the handlers; the batch and the items
\* yielded are kept
DrainModLog ==
    /\ pc = "draining"
    /\ \E f \in todo : \E b \in ModActionListings :
          LET s == f[1]
              c == f[2]
              r == Get(c, ids[s][c], skip[s][c], s, b)
              h == HandleItems(r.out, c, <<>>, 0)
          IN  /\ stream' = f
              /\ fetched' = b
              /\ yielded' = r.out
              /\ log' = log \o h.calls
              /\ found' = (found \/ h.handled > 0)
              /\ IF h.raised = ""
                 THEN /\ ids' = [ids EXCEPT ![s][c] = r.ids]
                      /\ skip' = [skip EXCEPT ![s][c] = r.skip]
                      /\ drained' = drained \cup {f}
                      /\ todo' = todo \ {f}
                      /\ pc' = "draining"
                 ELSE /\ ids' = [ids EXCEPT ![s][c] =
                                    Get(c, ids[s][c], skip[s][c], s,
                                        From(b, r.out[h.handled].id)).ids]
                      /\ pc' = "crashed"
                      /\ UNCHANGED <<skip, drained, todo>>
    /\ UNCHANGED <<event_handlers, counter, wait_time, failed, inserted, delivered,
                   filterVars, reactVars, ruleVars, setupVars>>

NextModLog == AddModActionsHandler \/ Start \/ BeginTick \/ DrainModLog \/ EndTick

SpecModLog == InitPoll /\ [][NextModLog]_vars

\* the handler registered with the names of filter f is to see the action e
Wanted(f, e) == f.values = {} \/ \E v \in f.values : Lower(v) = Lower(e.mod)

\* C19 as stated: when a primed mod log is drawn, a handler registered
\* through mod_actions is run on every fetched action that is new and whose
\* moderator is one of its names (on every new action when it has no
\* names), and on no other action.
C19_ModActionsHandled ==
    [][(pc = "draining" /\ drained' # drained /\ ~skip[stream'[1]]["mod_actions"]) =>
          \A k \in 1..Len(event_handlers), j \in 1..Len(fetched') :
              LET e == fetched'[j]
                  new == ~BoundedSetContains(ids[stream'[1]]["mod_actions"], e.id)
                  ran == \E n \in (Len(log) + 1)..Len(log') :
                            /\ log'[n].handler = k
                            /\ log'[n].item.id = e.id
                            /\ log'[n].outcome = "ran"
              IN  ran <=> (new /\ Wanted(event_handlers[k].filters[1], e))]_vars

-----------------------------------------------------------------------------
(* Banhammer.subreddits: add_subreddits and remove_subreddit *)

\* the longest list of subreddits followed
MaxSubs == 2

\* a str object, as the sequence of its characters
Str(chars) == [class |-> "str", chars |-> chars]

\* str.lower(), character by character
LowerChars(chars) ==
    [k \in 1..Len(chars) |->
        CASE chars[k] = "A" -> "a"
          [] chars[k] = "B" -> "b"
          [] chars[k] = "R" -> "r"
          [] OTHER -> chars[k]]

\* str.replace("r/", ""): every occurrence, found from the left, is dropped
RECURSIVE ReplaceRSlash(_)
ReplaceRSlash(chars) ==
    IF Len(chars) < 2 THEN chars
    ELSE IF chars[1] = "r" /\ chars[2] = "/"
         THEN ReplaceRSlash(SubSeq(chars, 3, Len(chars)))
    ELSE <<chars[1]>> \o ReplaceRSlash(Tail(chars))

\* str.replace("/", "")
ReplaceSlash(chars) ==
    LET Kept(c) == c # "/"
    IN  SelectSeq(chars, Kept)

\* Subreddit(bh, subreddit=name): the name is kept without "r/" and "/"
Subreddit(name) ==
    [class |-> "Subreddit", name |-> ReplaceSlash(ReplaceRSlash(name))]

\* str(obj): a str is itself, a Subreddit is its name
StrOf(obj) == IF obj.class = "Subreddit" THEN obj.name ELSE obj.chars

\* `str(x).lower().replace("r/", "").replace("/", "")`
Normalised(obj) == ReplaceSlash(ReplaceRSlash(LowerChars(StrOf(obj))))

\* a == b between the objects of the list and the argument of list.remove:
\* Subreddit defines no __eq__, so it equals no str; two str are equal when
\* their characters are
PyEq(a, b) == a.class = "str" /\ b.class = "str" /\ a.chars = b.chars

\* list.remove(x): the first element equal to x is dropped; ValueError when
\* there is none
ListRemove(list, x) ==
    LET at == {k \in 1..Len(list) : PyEq(list[k], x)}
    IN  IF at = {} THEN [raised |-> "ValueError", list |-> list]
        ELSE LET k == CHOOSE i \in at : \A j \in at : i <= j
             IN  [raised |-> "",
                  list |-> SubSeq(list, 1, k - 1) \o SubSeq(list, k + 1, Len(list))]

\* Banhammer.add_subreddits(sub): the list after the call
add_subreddits(list, sub) ==
    Append(list, IF sub.class # "Subreddit" THEN Subreddit(StrOf(sub)) ELSE sub)

\* the list with its first element whose normalised name is target dropped
RECURSIVE WithoutFirst(_, _)
WithoutFirst(list, target) ==
    IF list = <<>> THEN <<>>
    ELSE IF Normalised(Head(list)) = target THEN Tail(list)
    ELSE <<Head(list)>> \o WithoutFirst(Tail(list), target)

\* Banhammer.remove_subreddit(subreddit): at the first element of the list
\* whose normalised name is that of the argument, the normalised name (sub
\* is rebound to it) is handed to list.remove
remove_subreddit(list, subreddit) ==
    LET target == Normalised(subreddit)
    IN  IF \E k \in 1..Len(list) : Normalised(list[k]) = target
        THEN LET r == ListRemove(list, Str(target))
             IN  [raised |-> r.raised, value |-> r.raised = "", list |-> r.list]
        ELSE [raised |-> "", value |-> FALSE, list |-> list]

\* the names given to add_subreddits and remove_subreddit
SubNames ==
    {Str(<<"A">>), Str(<<"a">>), Str(<<"r", "/", "A">>), Str(<<"R", "/", "a", "/">>),
     Str(<<"B">>)}

InitSubs ==
    /\ IdleStream
    /\ IdleFilter
    /\ IdlePoll
    /\ IdleReact
    /\ IdleRule
    /\ IdleSetup

subsFrame == <<declared, streamVars, filterVars, pollVars, reactVars, ruleVars>>

AddSubreddits ==
    /\ Len(subreddits) < MaxSubs
    /\ \E sub \in SubNames :
          /\ subreddits' = add_subreddits(subreddits, sub)
          /\ setup' = [op |-> "add_subreddits", arg |-> sub, raised |-> "",
                       value |-> FALSE]
    /\ UNCHANGED subsFrame

RemoveSubreddit ==
    /\ \E x \in SubNames \cup Range(subreddits) :
          LET r == remove_subreddit(subreddits, x)
          IN  /\ subreddits' = r.list
              /\ setup' = [op |-> "remove_subreddit", arg |-> x, raised |-> r.raised,
                           value |-> r.value]
    /\ UNCHANGED subsFrame

NextSubs == AddSubreddits \/ RemoveSubreddit

SpecSubs == InitSubs /\ [][NextSubs]_vars

\* C20 as stated: remove_subreddit(x) never raises; when a subreddit of the
\* list has the name of x (case-insensitively, "r/" and "/" dropped) it
\* returns True and that subreddit is gone from the list; otherwise it
\* returns False and the list is as it was.
C20_RemoveSubreddit ==
    [][setup'.op = "remove_subreddit" =>
          LET target == Normalised(setup'.arg)
              match == \E k \in 1..Len(subreddits) : Normalised(subreddits[k]) = target
          IN  /\ setup'.raised = ""
              /\ setup'.value = match
              /\ subreddits' = IF match THEN WithoutFirst(subreddits, target)
                               ELSE subreddits]_vars

-----------------------------------------------------------------------------
(* ReactionPayload.feed called on one payload again and again *)

\* the arguments of feed followed
FeedItems == ReactItems \cup {None}
FeedUsers == {"", "Test"}
FeedEmojis == {<<>>, <<"fire">>}
FeedReplies == {"", "Test reply."}

InitFeed ==
    /\ IdleStream
    /\ IdleFilter
    /\ IdlePoll
    /\ IdleReact
    /\ IdleRule
    /\ IdleSetup

\* payload.feed(item, approved, user, emoji, reply) on the payload
Feed ==
    /\ \E item \in FeedItems, approved \in BOOLEAN, user \in FeedUsers,
          emoji \in FeedEmojis, reply \in FeedReplies :
          /\ default_payload' = feed(default_payload, item, approved, user, emoji, reply)
          /\ outcome' = [op |-> "feed", raised |-> "", item |-> item,
                         approved |-> approved, user |-> user, emoji |-> emoji,
                         reply |-> reply, was |-> default_payload.user]
    /\ UNCHANGED <<reactions, handled, issued, performed, streamVars, filterVars,
                   pollVars, ruleVars, setupVars>>

NextFeed == Feed

SpecFeed == InitFeed /\ [][NextFeed]_vars

\* C21 as stated: after feed(item, approved, user, emoji, reply) the
\* payload's item, approved, reply and emoji are the arguments, and its user
\* is the user given when that is not empty and the user it had otherwise.
C21_FeedStoresArguments ==
    outcome.op = "feed" =>
        /\ default_payload.item = outcome.item
        /\ default_payload.approved = outcome.approved
        /\ default_payload.reply = outcome.reply
        /\ default_payload.emoji = outcome.emoji
        /\ default_payload.user = IF outcome.user # "" THEN outcome.user ELSE outcome.was

-----------------------------------------------------------------------------
(* get_reactions of banhammer/models/reaction.py: the rules of a page *)

\* the longest page followed, in records
MaxRecords == 3

\* str.split(","): the pieces between the commas, cur being the piece begun
RECURSIVE SplitComma(_, _)
SplitComma(chars, cur) ==
    IF chars = <<>> THEN <<cur>>
    ELSE IF Head(chars) = "," THEN <<cur>> \o SplitComma(Tail(chars), <<>>)
    ELSE SplitComma(Tail(chars), Append(cur, Head(chars)))

\* `[i.strip() for i in item["ignore"].split(",")]`
IgnoreOf(record) ==
    LET pieces == SplitComma(record.ignore, <<>>)
    IN  [k \in 1..Len(pieces) |-> Strip(pieces[k])]

\* list.remove(item) for the item the loop is at: the first record equal to it
RECURSIVE RemoveRecord(_, _)
RemoveRecord(result, item) ==
    IF result = <<>> THEN <<>>
    ELSE IF Head(result) = item THEN Tail(result)
    ELSE <<Head(result)>> \o RemoveRecord(Tail(result), item)

\* `[Reaction(**r) for r in result if "emoji" in r]`
RECURSIVE ReactionsOf(_)
ReactionsOf(result) ==
    IF result = <<>> THEN <<>>
    ELSE (IF "emoji" \in DOMAIN Head(result) THEN <<Reaction(Head(result))>> ELSE <<>>)
         \o ReactionsOf(Tail(result))

\* get_reactions(yml), on the records yaml.get_list(yml) returns: the first
\* record with an ignore key gives the ignore list and is taken out; the
\* rules are built from every record left that has an emoji
get_reactions_yml(result) ==
    LET at == {k \in 1..Len(result) : "ignore" \in DOMAIN result[k]}
        first == CHOOSE k \in at : \A j \in at : k <= j
        left == IF at = {} THEN result ELSE RemoveRecord(result, result[first])
    IN  [ignore |-> IF at = {} THEN <<>> ELSE IgnoreOf(result[first]),
         reactions |-> ReactionsOf(left)]

\* the records a page can hold
PageRecords ==
    {[emoji |-> Check, approve |-> TRUE],
     [emoji |-> <<" ">> \o Cross, type |-> "comment"],
     [type |-> "mail", reply |-> "hi"],
     [ignore |-> Check],
     [ignore |-> Cross \o <<",", " ">> \o Check]}

Pages == SeqsUpTo(PageRecords, MaxRecords)

InitPage ==
    /\ outcome \in {[op |-> "page", raised |-> "", result |-> p] : p \in Pages}
    /\ reactions = <<>>
    /\ default_payload = ReactionPayload("Banhammer")
    /\ handled = 0
    /\ issued = <<>>
    /\ performed = <<>>
    /\ IdleStream
    /\ IdleFilter
    /\ IdlePoll
    /\ IdleRule
    /\ IdleSetup

\* reaction.get_reactions(content)["reactions"] on the page read
GetReactions ==
    /\ outcome.op = "page"
    /\ LET r == get_reactions_yml(outcome.result)
       IN  /\ outcome' = [op |-> "get_reactions", raised |-> "",
                          result |-> outcome.result, ignore |-> r.ignore]
           /\ reactions' = r.reactions
    /\ UNCHANGED <<default_payload, handled, issued, performed, streamVars, filterVars,
                   pollVars, ruleVars, setupVars>>

NextPage == GetReactions

SpecPage == InitPage /\ [][NextPage]_vars

\* the emojis the first ignore record of a page lists
Ignored(result) ==
    LET at == {k \in 1..Len(result) : "ignore" \in DOMAIN result[k]}
    IN  IF at = {} THEN {}
        ELSE Range(IgnoreOf(result[CHOOSE k \in at : \A j \in at : k <= j]))

\* C22 as stated: the rule list built from a page holds no rule whose emoji
\* the page's ignore record lists, and exactly one rule for each other
\* record that has an emoji: the ignore record and the records without an
\* emoji give no rule.
C22_IgnoredLeftOut ==
    outcome.op = "get_reactions" =>
        LET kept(r) == /\ "emoji" \in DOMAIN r
                       /\ "ignore" \notin DOMAIN r
                       /\ Strip(r.emoji) \notin Ignored(outcome.result)
            rules == SelectSeq(outcome.result, kept)
        IN  /\ \A k \in 1..Len(reactions) :
                  reactions[k].emoji \notin Ignored(outcome.result)
            /\ reactions = [k \in 1..Len(rules) |-> Reaction(rules[k])]

-----------------------------------------------------------------------------
(* ReactionPayload.get_message: payloads are rendered between executions *)

\* ReactionPayload.get_message: the payload as the call leaves it, and the
\* parts the message is made of; "dismissed" is appended before the message
\* is put together
get_message(payload) ==
    LET actions == IF Len(payload.actions) = 0 THEN <<"dismissed">>
                   ELSE payload.actions
    IN  [payload |-> [payload EXCEPT !.actions = actions],
         raised |-> IF payload.item = None THEN "AttributeError" ELSE "",
         message |-> IF payload.item = None THEN <<>>
                     ELSE <<payload.item.type, actions, payload.user,
                            get_author_name(payload.item)>>]

\* the rules of the subreddit whose payloads are rendered: a mail rule that
\* asks for nothing, one that archives and replies, and one that approves
Nothing == [emoji |-> Check, type |-> "mail"]

RenderRules == <<Reaction(Nothing), Reaction(Archive), Reaction(Approve)>>

InitRender ==
    /\ reactions = RenderRules
    /\ default_payload = ReactionPayload("Banhammer")
    /\ handled = 0
    /\ outcome = NoCall
    /\ issued = <<>>
    /\ performed = <<>>
    /\ IdleStream
    /\ IdleFilter
    /\ IdlePoll
    /\ IdleRule
    /\ IdleSetup

\* str(payload) / payload.get_message() on the payload the last execution
\* returned, which is the default payload object when the call gave none
Render ==
    /\ outcome.op \in {"handle", "get_message"}
    /\ outcome.raised = ""
    /\ LET m == get_message(outcome.value)
       IN  /\ outcome' = [outcome EXCEPT !.op = "get_message", !.value = m.payload]
           /\ default_payload' = IF outcome.explicit THEN default_payload ELSE m.payload
    /\ UNCHANGED <<reactions, handled, issued, performed, streamVars, filterVars,
                   pollVars, ruleVars, setupVars>>

NextRender == HandleReaction \/ Render

SpecRender == InitRender /\ [][NextRender]_vars

\* C31 as stated: "dismissed" is in the action list of the payload of an
\* execution only when that execution performed no action, it is there once
\* and with no other tag, and once the payload is rendered it is there iff
\* the execution performed no action.
C31_DismissedIffNoAction ==
    (outcome.op \in {"handle", "get_message"} /\ outcome.raised = "") =>
        LET actions == outcome.value.actions
        IN  /\ "dismissed" \in Range(actions) =>
                  /\ performed = <<>>
                  /\ actions = <<"dismissed">>
            /\ outcome.op = "get_message" =>
                  ("dismissed" \in Range(actions) <=> performed = <<>>)

-----------------------------------------------------------------------------
(* Subreddit.get_mod_actions drawn again and again with a list of names *)

\* the moderator of the action with id i
ModOf(i) == IF i % 2 = 1 THEN "X" ELSE "Y"

\* what the mod log returns, newest first: the actions hi, hi - 1, ..., lo
RecentActions ==
    {[k \in 1..(hi - lo + 1) |-> ModAction(hi + 1 - k, ModOf(hi + 1 - k))] :
        hi \in ItemIds, lo \in ItemIds} \cap
    SeqsUpTo({ModAction(i, ModOf(i)) : i \in ItemIds}, MaxBatch)

\* the lists of names get_mod_actions is called with
ModLists == {<<>>, <<"x">>, <<"X", "y">>}

InitModStream ==
    /\ stream = <<"A", "mod_actions">>
    /\ ids = NoIds
    /\ skip = AllSkip
    /\ fetched = <<>>
    /\ yielded = <<>>
    /\ inserted = <<>>
    /\ delivered = <<>>
    /\ IdleFilter
    /\ IdlePoll
    /\ IdleReact
    /\ IdleRule
    /\ IdleSetup

\* `async for action in subreddit.get_mod_actions(mods)`, drawn to its end
DrawModActions ==
    /\ \E b \in RecentActions, mods \in ModLists :
          LET s == stream[1]
              r == get_mod_actions(ids[s]["mod_actions"], skip[s]["mod_actions"],
                                   s, b, mods)
          IN  /\ Len(inserted) + Len(r.ins) <= MaxInserted
              /\ ids' = [ids EXCEPT ![s]["mod_actions"] = r.ids]
              /\ skip' = [skip EXCEPT ![s]["mod_actions"] = r.skip]
              /\ fetched' = b
              /\ yielded' = r.out
              /\ inserted' = inserted \o r.ins
              /\ delivered' = delivered \o IdsOf(r.out)
              /\ setup' = [op |-> "get_mod_actions", raised |-> "", mods |-> mods]
    /\ UNCHANGED <<stream, declared, subreddits, filterVars, pollVars, reactVars,
                   ruleVars>>

NextModStream == DrawModActions

SpecModStream == InitModStream /\ [][NextModStream]_vars

\* the list of names is not empty and holds, whatever the case, no name of
\* the moderator of the action e
RejectedBy(mods, e) ==
    /\ mods # <<>>
    /\ \A k \in 1..Len(mods) : Lower(mods[k]) # Lower(e.mod)

\* C32 as stated: an action that is not in the window when the mod log is
\* drawn and whose moderator the list of names rejects is not yielded, and
\* its id is in the window after the draw.
C32_RejectedIsRecorded ==
    [][setup'.op = "get_mod_actions" =>
          \A j \in 1..Len(fetched') :
              LET e == fetched'[j]
              IN  (/\ ~BoundedSetContains(Window, e.id)
                   /\ RejectedBy(setup'.mods, e))
                  => /\ e.id \notin Range(IdsOf(yielded'))
                     /\ BoundedSetContains(ids'[stream[1]]["mod_actions"], e.id)]_vars

-----------------------------------------------------------------------------
(* Reaction.__init__ called with keys given and keys left out *)

\* a key of the keyword arguments: left out (<<>>) or given with a value
Given(key, v) == IF v = <<>> THEN <<>> ELSE [k \in {key} |-> v[1]]

OptionalFlag == {<<>>, <<TRUE>>, <<FALSE>>}

\* the keyword arguments followed
RuleKwargs ==
    {[emoji |-> Check, reply |-> r] @@ Given("distinguish_reply", d)
        @@ Given("sticky_reply", st) @@ Given("approve", a) @@ Given("lock", l) :
        r \in {"", "no"}, d \in OptionalFlag, st \in OptionalFlag,
        a \in OptionalFlag, l \in OptionalFlag}

InitNewReaction ==
    /\ IdleStream
    /\ IdleFilter
    /\ IdlePoll
    /\ IdleReact
    /\ IdleRule
    /\ IdleSetup

\* Reaction(**kwargs)
NewReaction ==
    /\ \E kwargs \in RuleKwargs :
          /\ run_rule' = Reaction(kwargs)
          /\ run_result' = [op |-> "Reaction", raised |-> "", kwargs |-> kwargs]
    /\ UNCHANGED <<run_item, run_fail, streamVars, filterVars, pollVars, reactVars,
                   setupVars>>

NextNewReaction == NewReaction

SpecNewReaction == InitNewReaction /\ [][NextNewReaction]_vars

\* C33: a rule that was constructed has distinguish_reply set whenever it
\* has sticky_reply set, whether the two keys were given or left out;
\* sticky_reply is as given, set when left out, and a rule without
\* sticky_reply has distinguish_reply as given, set when left out.
C33_StickyImpliesDistinguish ==
    run_result.op = "Reaction" =>
        /\ run_rule.sticky_reply => run_rule.distinguish_reply
        /\ run_rule.sticky_reply = Kwarg(run_result.kwargs, "sticky_reply", TRUE)
        /\ ~run_rule.sticky_reply =>
              run_rule.distinguish_reply =
                  Kwarg(run_result.kwargs, "distinguish_reply", TRUE)

\* a rule was constructed with distinguish_reply given as false and
\* sticky_reply left out
C33_Witness ==
    /\ run_result.op = "Reaction"
    /\ "sticky_reply" \notin DOMAIN run_result.kwargs
    /\ "distinguish_reply" \in DOMAIN run_result.kwargs
    /\ ~run_result.kwargs.distinguish_reply
    /\ run_rule.sticky_reply
    /\ run_rule.distinguish_reply

-----------------------------------------------------------------------------
(* Subreddit.load_reactions called again and again *)

\* the longest reactions page loaded, in records
MaxLoaded == 2

\* the records of the wiki pages loaded
LoadRecords ==
    {[emoji |-> Check, approve |-> TRUE],
     [emoji |-> Cross, reply |-> "no"],
     [type |-> "mail"]}

\* what reading and parsing the wiki page comes to: the records of the
\* page, or an exception raised by the fetch or by the parser
PageReads ==
    {[raised |-> "", result |-> p] : p \in SeqsUpTo(LoadRecords, MaxLoaded)}
    \cup {[raised |-> e, result |-> <<>>] : e \in {"NotFound", "YAMLError"}}

\* the records of the reactions.yaml file packaged with the module
DefaultRecords ==
    <<[emoji |-> Check, approve |-> TRUE, lock |-> TRUE],
      [emoji |-> Cross, type |-> "comment"]>>

\* load_reactions with the rules of the page added to the rules there are
load_reactions_extends(list, custom_emotes, read) ==
    LET reacts == IF custom_emotes /\ read.raised = ""
                  THEN get_reactions_yml(read.result).reactions
                  ELSE <<>>
        loaded == list \o reacts
    IN  IF Len(loaded) > 0 THEN loaded
        ELSE get_reactions_yml(DefaultRecords).reactions

\* Subreddit.load_reactions: the rule list after the call.  The rules of the
\* page replace the list when the page was read and gave a rule; an
\* exception of the read is caught; a list that is still empty becomes the
\* rules of the packaged file
load_reactions(list, custom_emotes, read) ==
    LET reacts == IF custom_emotes /\ read.raised = ""
                  THEN get_reactions_yml(read.result).reactions
                  ELSE <<>>
        loaded == IF Len(reacts) > 0 THEN reacts ELSE list
    IN  IF Len(loaded) > 0 THEN loaded
        ELSE get_reactions_yml(DefaultRecords).reactions

InitLoad ==
    /\ IdleStream
    /\ IdleFilter
    /\ IdlePoll
    /\ IdleReact
    /\ IdleRule
    /\ IdleSetup

\* await subreddit.load_reactions()
LoadReactions ==
    /\ \E custom_emotes \in BOOLEAN, read \in PageReads :
          /\ reactions' = load_reactions(reactions, custom_emotes, read)
          /\ outcome' = [op |-> "load_reactions", raised |-> "",
                         custom_emotes |-> custom_emotes, read |-> read]
    /\ UNCHANGED <<default_payload, handled, issued, performed, streamVars, filterVars,
                   pollVars, ruleVars, setupVars>>

NextLoad == LoadReactions

SpecLoad == InitLoad /\ [][NextLoad]_vars

\* the rules a single parse of the records gives
ParseOf(result) == get_reactions_yml(result).reactions

-----------------------------------------------------------------------------
(* A rule handed out for one item while rules are looked up for others *)

\* RedditItem.get_reactions of banhammer/item.py: every rule of the list
\* that is eligible for the item is given the item
item_get_reactions(rules, item) ==
    LET _r == get_reactions(rules, item.item)
    IN  [k \in 1..Len(rules) |->
            IF k \in Range(_r) THEN [rules[k] EXCEPT !.item = item] ELSE rules[k]]

\* RedditItem.get_reaction of banhammer/item.py: the rule returned, an
\* object of the subreddit's list, is given the item
item_get_reaction(rules, emoji, item) ==
    LET r == get_reaction(rules, emoji, item.item)
    IN  IF r = 0 THEN rules ELSE [rules EXCEPT ![r].item = item]

InitHandOut ==
    /\ reactions \in RuleLists
    /\ default_payload = ReactionPayload("Banhammer")
    /\ handled = 0
    /\ outcome = NoCall
    /\ issued = <<>>
    /\ performed = <<>>
    /\ IdleStream
    /\ IdleFilter
    /\ IdlePoll
    /\ IdleRule
    /\ IdleSetup

\* item.get_reaction(emoji) returns a rule, which the caller keeps:
\* run_item is the item, run_result.rule the place of the rule in the list
HandOut ==
    /\ run_result = NoCall
    /\ \E item \in ReactItems, emoji \in {Check, Cross} :
          LET r == get_reaction(reactions, emoji, item.item)
          IN  /\ r # 0
              /\ reactions' = item_get_reaction(reactions, emoji, item)
              /\ run_item' = item
              /\ run_result' = [op |-> "get_reaction", raised |-> "", rule |-> r]
              /\ outcome' = [op |-> "get_reaction", emoji |-> emoji, item |-> item,
                             copy |-> "banhammer.item", raised |-> "", value |-> r]
    /\ UNCHANGED <<default_payload, handled, issued, performed, run_rule, run_fail,
                   streamVars, filterVars, pollVars, setupVars>>

\* get_reaction(emoji) of another item of the subreddit, after the hand-out
LookUp ==
    /\ run_result # NoCall
    /\ \E item \in ReactItems, emoji \in {Check, Cross} :
          LET r == get_reaction(reactions, emoji, item.item)
          IN  /\ r # 0
              /\ reactions' = item_get_reaction(reactions, emoji, item)
              /\ outcome' = [op |-> "get_reaction", emoji |-> emoji, item |-> item,
                             copy |-> "banhammer.item", raised |-> "", value |-> r]
    /\ UNCHANGED <<default_payload, handled, issued, performed, ruleVars,
                   streamVars, filterVars, pollVars, setupVars>>

\* get_reactions() of another item of the subreddit, after the hand-out
LookUpAll ==
    /\ run_result # NoCall
    /\ \E item \in ReactItems :
          /\ reactions' = item_get_reactions(reactions, item)
          /\ outcome' = [op |-> "get_reactions", item |-> item,
                         copy |-> "banhammer.item", raised |-> "",
                         value |-> get_reactions(reactions, item.item)]
    /\ UNCHANGED <<default_payload, handled, issued, performed, ruleVars,
                   streamVars, filterVars, pollVars, setupVars>>

\* the rule handed out is executed without an item, with a payload of the
\* caller's
ExecuteHandedOut ==
    /\ run_result # NoCall
    /\ handled < MaxCalls
    /\ \E user \in {"", "mod"} :
          LET h == handle(reactions[run_result.rule], ReactionPayload("Banhammer"),
                          user, None, "")
          IN  /\ outcome' = [op |-> "handle", explicit |-> TRUE,
                             raised |-> h.raised, value |-> h.payload]
              /\ issued' = h.issued
              /\ performed' = h.performed
    /\ handled' = handled + 1
    /\ UNCHANGED <<reactions, default_payload, ruleVars, streamVars, filterVars,
                   pollVars, setupVars>>

NextHandOut == HandOut \/ LookUp \/ LookUpAll \/ ExecuteHandedOut

SpecHandOut == InitHandOut /\ [][NextHandOut]_vars

\* C36 as stated: a rule obtained through A's get_reaction and executed
\* without an item acts on A, whatever lookups were made for other items of
\* the subreddit in between.
C36_ActsOnItsItem ==
    (outcome.op = "handle" /\ outcome.raised = "") => outcome.value.item = run_item

-----------------------------------------------------------------------------
(* Draws whose fetch fails, and the streams a draw leaves alone *)

\* the streams drawn
FetchStreams == {<<"A", "new">>, <<"A", "comments">>}

\* what the listing call of a draw gives: the listing, or the exception
\* raised while it is read
FetchReads(identifier) ==
    {[raised |-> "", listing |-> l] :
        l \in {m \in Listings(IF identifier = "new" THEN "Submission" ELSE "Comment") :
                  Len(m) <= 1 /\ \A k \in 1..Len(m) : m[k].id <= MaxBatch}}
    \cup {[raised |-> "Exception", listing |-> <<>>]}

\* as fetch_and_get, but the primed flag is cleared when the fetch fails too
fetch_and_get_primes(identifier, w, skipping, subreddit, read) ==
    IF read.raised # ""
    THEN [ids |-> w, skip |-> FALSE, out |-> <<>>, ins |-> <<>>]
    ELSE Get(identifier, w, skipping, subreddit, read.listing)

\* Subreddit.get_new / get_comments from the first line on: the list
\* comprehension reads the whole listing before the loop, so an exception
\* of the read leaves the generator before the window or the flag is touched
fetch_and_get(identifier, w, skipping, subreddit, read) ==
    IF read.raised # ""
    THEN [ids |-> w, skip |-> skipping, out |-> <<>>, ins |-> <<>>]
    ELSE Get(identifier, w, skipping, subreddit, read.listing)

InitFetch ==
    /\ IdleStream
    /\ IdleFilter
    /\ IdlePoll
    /\ IdleReact
    /\ IdleRule
    /\ IdleSetup

\* a draw of one stream, iterated to its end by the caller; failed and
\* drained keep the streams whose fetch failed and the streams drawn to the end
DrawFetched ==
    /\ \E f \in FetchStreams : \E read \in FetchReads(f[2]) :
          LET s == f[1]
              c == f[2]
              r == fetch_and_get(c, ids[s][c], skip[s][c], s, read)
          IN  /\ stream' = f
              /\ ids' = [ids EXCEPT ![s][c] = r.ids]
              /\ skip' = [skip EXCEPT ![s][c] = r.skip]
              /\ fetched' = read.listing
              /\ yielded' = r.out
              /\ failed' = IF read.raised # "" THEN failed \cup {f} ELSE failed
              /\ drained' = IF read.raised = "" THEN drained \cup {f} ELSE drained
              /\ setup' = [op |-> "get_" \o c, raised |-> read.raised,
                           first |-> f \notin drained]
    /\ UNCHANGED <<inserted, delivered, declared, subreddits, event_handlers, counter,
                   pc, todo, found, wait_time, log, filterVars, reactVars, ruleVars>>

NextFetch == DrawFetched

SpecFetch == InitFetch /\ [][NextFetch]_vars

\* C37: a draw whose fetch fails leaves the window and the primed flag of
\* its stream as they were and yields nothing; the first draw of a stream
\* whose fetch succeeds yields nothing and primes the stream, whether or not
\* fetches of that stream failed before; and a draw leaves the window and
\* the primed flag of every other stream as they were.
C37_FailedFetchChangesNothing ==
    [][LET s == stream'[1]
           c == stream'[2]
       IN  /\ setup'.raised # "" =>
                 /\ ids'[s][c] = ids[s][c]
                 /\ skip'[s][c] = skip[s][c]
                 /\ yielded' = <<>>
           /\ (setup'.raised = "" /\ setup'.first) =>
                 /\ skip[s][c]
                 /\ ~skip'[s][c]
                 /\ yielded' = <<>>
                 /\ Range(IdsOf(fetched')) \subseteq Range(ids'[s][c])
           /\ \A t \in Subreddits, d \in Categories :
                 <<t, d>> # stream' =>
                     /\ ids'[t][d] = ids[t][d]
                     /\ skip'[t][d] = skip[t][d]]_vars

\* the fetch of the first draw of a stream failed, and the next draw of
\* the stream, on a listing that is not empty, yielded nothing and primed
\* it, while another stream is not primed yet
C37_Witness ==
    /\ setup.op = "get_comments"
    /\ setup.raised = ""
    /\ setup.first
    /\ stream \in failed
    /\ fetched # <<>>
    /\ yielded = <<>>
    /\ ~skip[stream[1]][stream[2]]
    /\ skip["A"]["new"]
    /\ <<"A", "new">> \in failed

====
